---- MODULE Spec2Model ----
(***************************************************************************)
(* claude-usage: the OAuth token lifecycle of the rate-limit client        *)
(* (internal/api/client.go), the credential file rewrite                   *)
(* (internal/stats/parser.go), the parsing of the usage response and the   *)
(* reconciliation of cache and API data (internal/stats/weekly.go,         *)
(* app.go).                                                                *)
(*                                                                         *)
(* Three specifications share the variables:                               *)
(*   Spec      one App driving FetchRateLimits call chains, one HTTP       *)
(*             exchange per step;                                          *)
(*   SpecStats parseUsageResponse, the application of the snapshot to a    *)
(*             WeeklyStats and the percentage getters, over bounded        *)
(*             inputs;                                                     *)
(*   SpecCred  UpdateRefreshToken over bounded credential documents, one   *)
(*             file-system operation per step.                             *)
(***************************************************************************)
EXTENDS Integers, Sequences, FiniteSets, TLC

\* ------------------------------------------------------------------------
\* Program constants

\* client.go:36
maxRetries == 5

\* ------------------------------------------------------------------------
\* Token values.  "" is Go's zero string: an absent JSON field decodes to it.

\* access tokens the token endpoint can return in a 200 response
AccessTokens == {"", "A1", "A2"}

\* refresh tokens the token endpoint can return in a 200 response
RefreshTokens == {"", "R0", "R1"}

\* "-" marks a history variable that holds no value yet
None == "-"

\* the goroutines that call refresh(): onReady and refreshLoop (app.go:72-99)
Goroutines == {"onReady", "loop"}

\* WeeklyStats objects: one published, one a reader still holds, and one
\* for each goroutine to build
Objects == {"w0", "w1", "w2", "w3"}

VARIABLES
    \* ---- api.Client (client.go:40-44) and the App field holding it
    apiClient,      \* "nil" until fetchAndApplyRateLimits creates the client
    token,          \* Client.token
    refreshToken,   \* Client.refreshToken
    \* ---- the FetchRateLimits call chain in progress
    pc,             \* "idle" | "usage" | "refresh" | "done"
    attempt,        \* parameter of fetchRateLimitsWithRetry
    err,            \* error returned by FetchRateLimits, "nil" if none
    rateLimits,     \* *RateLimitData returned by FetchRateLimits, or "nil"
    \* ---- files
    credFile,       \* content of the credentials file
    credMode,       \* its permission bits
    warningFile,    \* refresh token written to NEW_REFRESH_TOKEN_WARNING.txt
    callbackCalls,  \* refresh tokens handed to the rotation callback
    tray,           \* what the tray shows: "init" | "error" | "stats"
    \* ---- observations of the current call chain (history)
    requests,       \* usage requests sent
    refreshes,      \* refresh exchanges sent
    sentToken,      \* bearer token of the latest usage request
    sentAt,         \* value of refreshes when the latest usage request went out
    sentRefresh,    \* refresh token sent in the latest refresh exchange
    lastRefresh,    \* outcome of the latest refresh exchange
    granted,        \* access token of the latest 200 refresh response
    rotated,        \* refresh token of the latest rotation event
    only401,        \* every usage response so far was 401
    allGranted,     \* every refresh exchange so far returned 200 with an
                    \* access token
    \* ---- reconciliation (weekly.go, app.go)
    weeklyStats,    \* *stats.WeeklyStats of the cycle, or "nil"
    statsPc,        \* "fetch" | "show" | "shown"
    percentage,     \* last value returned by GetPercentage
    fivePct,        \* last value returned by GetFiveHourPercentage
    \* ---- the UpdateRefreshToken call in progress (parser.go:149-218)
    urtPc,          \* "idle" | "stat" | "create" | "write" | "close" |
                    \* "chmod" | "rename" | "done"
    urtToken,       \* parameter newRefreshToken
    urtData,        \* updatedData, the marshalled document
    urtPerm,        \* perm, the permission bits os.Stat reported
    urtErr,         \* the error returned, "nil" if none
    urtOld,         \* the file content os.ReadFile saw (history)
    tempFile,       \* content of the temp file in the credentials directory
    tempMode,       \* its permission bits
    urtFrom,        \* the step the call returned from (history)
    \* ---- the goroutines of the App (app.go:50-108, tray.go:40-61)
    readyPc,        \* onReady: "start" | "spawn" | "done" | a statement of
                    \* refresh(): "refresh" | "parse" | "aggregate" | "fetch"
                    \* | "lock" | "swap" | "unlock" | "tray"
    loopPc,         \* refreshLoop: "none" | "select" | "stopped" | a
                    \* statement of refresh()
    menuPc,         \* the goroutine of HandleMenuEvents: "none" | "listen" |
                    \* "trigger" | "exited"
    refreshCh,      \* values buffered in App.refreshCh
    tickerC,        \* values buffered in ticker.C
    stopCh,         \* "open" | "closed" | "panic" (closed twice)
    triggers,       \* calls of triggerRefresh so far (history)
    accepted,       \* of those, the ones whose send went through (history)
    manualCycles,   \* cycles the loop started on a receive from refreshCh
                    \* (history)
    failedInLoop,   \* a cycle of the loop ended in setError (history)
    \* ---- the inputs of CalculateWeeklyStats (weekly.go:75-115)
    now,            \* the instant time.Now() returns
    cache,          \* *StatsCache, Nil for no cache
    \* ---- observations across the cycles of one client (history)
    lastUsage,      \* outcome of the latest usage request of the call chain
    heldBefore,     \* Client.token when the cycle before this one ended
    errBefore,      \* the error the cycle before this one ended with
    rotatedBefore,  \* refresh token of the latest rotation of an earlier cycle
    \* ---- the shared pointer and its lock (app.go:24-25, 146-149, 246-250)
    statsMu,        \* App.statsMu: the goroutine holding the exclusive lock
                    \* or "none", and the number of shared holders
    stats,          \* App.stats: "nil", or the object it points to: "w0" |
                    \* "w1"
    readerPc,       \* a reader of App.stats: "idle" | "read" | "runlock" |
                    \* "use"
    steps,          \* the steps of the refresh() in progress, in the order
                    \* they were taken (history)
    \* ---- the WeeklyStats objects (app.go:141-152, 246-271)
    local,          \* for each goroutine, the object the weeklyStats of its
                    \* refresh() points to, "nil" outside refresh()
    objects,        \* what each object holds: "none" (not allocated) |
                    \* "cache" (as CalculateWeeklyStats left it) | "api" (the
                    \* snapshot applied)
    held,           \* the pointer the reader copied out, "nil" for none
    \* ---- another process writing the credentials file
    lastWriter,     \* who replaced the file last: "none" | "external" |
                    \* "update" (history)
    lastDoc,        \* the complete document the last writer meant to leave
                    \* (history)
    extWrites       \* writes of the other process so far (history)

clientVars == <<apiClient, token, refreshToken, pc, attempt, err, rateLimits>>
histVars == <<requests, refreshes, sentToken, sentAt, sentRefresh,
              lastRefresh, granted, rotated, only401, allGranted, lastUsage>>
fileVars == <<credFile, credMode, warningFile, callbackCalls>>
appVars == <<tray>>

statsVars == <<weeklyStats, statsPc, percentage, fivePct>>
urtVars == <<urtPc, urtToken, urtData, urtPerm, urtErr, urtOld, tempFile,
             tempMode, urtFrom>>

schedVars == <<readyPc, loopPc, menuPc, refreshCh, tickerC, stopCh, triggers,
               accepted, manualCycles, failedInLoop>>

weekVars == <<now, cache>>
crossVars == <<heldBefore, errBefore, rotatedBefore>>
lockVars == <<statsMu, stats, readerPc, steps>>
extVars == <<lastWriter, lastDoc, extWrites>>
heapVars == <<local, objects, held>>

\* what a call of UpdateRefreshToken leaves alone
notFileVars == <<clientVars, histVars, warningFile, callbackCalls, appVars,
                 statsVars, schedVars, weekVars, crossVars, lockVars,
                 heapVars>>

\* ------------------------------------------------------------------------
\* float64 values.  A value v is held as the integer v * FP (three decimal
\* digits); the API's utilization, a percentage, is held the same way, so
\* 80 % is 80000 and the fraction 0.8 is 800.

FP == 10 * 10 * 10

\* x / 100.0
Div100(x) == x \div 100

\* int(x * 100): Go truncates towards zero
IntOfTimes100Wrapped(x) == ((x * 100) \div FP) % 100

IntOfTimes100(x) ==
    IF x >= 0 THEN (x * 100) \div FP ELSE -(((-x) * 100) \div FP)

\* the two clamps that follow every float to percentage conversion:
\* weekly.go:154-159, 183-188, 224-229
Clamp99(p) ==
    LET hi == IF p > 99 THEN 99 ELSE p
    IN  IF hi < 0 THEN 0 ELSE hi

\* ------------------------------------------------------------------------
\* time.Parse(time.RFC3339, s): the instant, or an error.  An instant is
\* named by its text in UTC; ZeroTime is time.Time{}.

ZeroTime == "0001-01-01T00:00:00Z"

ParseRFC3339(s) ==
    CASE s = "2026-01-05T10:00:00Z"      -> [ok |-> TRUE, t |-> "2026-01-05T10:00:00Z"]
      [] s = "2026-01-05T12:00:00+02:00" -> [ok |-> TRUE, t |-> "2026-01-05T10:00:00Z"]
      [] s = "2026-01-12T00:00:00Z"      -> [ok |-> TRUE, t |-> "2026-01-12T00:00:00Z"]
      [] OTHER                           -> [ok |-> FALSE, t |-> ZeroTime]

\* ------------------------------------------------------------------------
\* parseUsageResponse (client.go:287-332)

\* a nil pointer; every pointed-to record carries nil |-> FALSE
Nil == [nil |-> TRUE]

\* data.RepresentativeClaim, client.go:319-324
RepresentativeClaimTieToFiveHour(five, seven) ==
    IF five >= seven THEN "five_hour" ELSE "seven_day"

RepresentativeClaim(five, seven) ==
    IF five > seven THEN "five_hour" ELSE "seven_day"

\* data.Status, client.go:290 and 326-329
StatusStrictlyAbove(five, seven) ==
    IF five > FP \/ seven > FP THEN "throttled" ELSE "allowed"

Status(five, seven) ==
    IF five >= FP \/ seven >= FP THEN "throttled" ELSE "allowed"

\* the reset time of one window: the parsed instant, else the zero value
\* (client.go:298-303)
ResetOf(s) ==
    LET r == ParseRFC3339(s) IN IF r.ok THEN r.t ELSE ZeroTime

\* a per-model bucket (*usageBucket, client.go:306-317): untouched fields
\* keep their zero value when the bucket is absent
BucketUtilization(b) == IF b.nil THEN 0 ELSE Div100(b.utilization)
BucketReset(b) == IF b.nil THEN ZeroTime ELSE ResetOf(b.resets_at)

parseUsageResponse(usage) ==
    LET five == Div100(usage.five_hour.utilization)
        seven == Div100(usage.seven_day.utilization)
    IN  [ nil                 |-> FALSE,
          FiveHourUtilization |-> five,
          WeeklyUtilization   |-> seven,
          FiveHourReset       |-> ResetOf(usage.five_hour.resets_at),
          WeeklyReset         |-> ResetOf(usage.seven_day.resets_at),
          OpusUtilization     |-> BucketUtilization(usage.seven_day_opus),
          OpusReset           |-> BucketReset(usage.seven_day_opus),
          SonnetUtilization   |-> BucketUtilization(usage.seven_day_sonnet),
          SonnetReset         |-> BucketReset(usage.seven_day_sonnet),
          RepresentativeClaim |-> RepresentativeClaim(five, seven),
          Status              |-> Status(five, seven) ]

\* ------------------------------------------------------------------------
\* Plan limits and percentages (weekly.go)

\* weekly.go:10-23
planLimits ==
    [ default_claude_pro     |-> 45000000,
      default_claude_max_5x  |-> 225000000,
      default_claude_max_20x |-> 900000000,
      pro                    |-> 45000000,
      max_5x                 |-> 225000000,
      team                   |-> 225000000,
      team_max_5x            |-> 225000000,
      enterprise             |-> 500000000,
      free                   |-> 8000000 ]

\* weekly.go:27-44
GetWeeklyLimitSubscriptionFirst(subscriptionType, rateLimitTier) ==
    IF subscriptionType # "" /\ subscriptionType \in DOMAIN planLimits
    THEN planLimits[subscriptionType]
    ELSE IF rateLimitTier # "" /\ rateLimitTier \in DOMAIN planLimits
         THEN planLimits[rateLimitTier]
         ELSE planLimits["pro"]

GetWeeklyLimitZeroIfUnknown(subscriptionType, rateLimitTier) ==
    IF rateLimitTier # "" /\ rateLimitTier \in DOMAIN planLimits
    THEN planLimits[rateLimitTier]
    ELSE IF subscriptionType # "" /\ subscriptionType \in DOMAIN planLimits
         THEN planLimits[subscriptionType]
         ELSE 0

GetWeeklyLimit(subscriptionType, rateLimitTier) ==
    IF rateLimitTier # "" /\ rateLimitTier \in DOMAIN planLimits
    THEN planLimits[rateLimitTier]
    ELSE IF subscriptionType # "" /\ subscriptionType \in DOMAIN planLimits
         THEN planLimits[subscriptionType]
         ELSE planLimits["pro"]

\* int((w.TotalTokens * 100) / limit), weekly.go:180.  The product is not
\* formed, it would leave the range of TLC's 32-bit integers: every plan
\* limit is a multiple of 100, and for such a limit and tokens >= 0 the
\* quotient of 100 * tokens by limit is the quotient of tokens by limit / 100.
TokensOverLimit(tokens, limit) == tokens \div limit

TokensTimes100Over(tokens, limit) == tokens \div (limit \div 100)

\* weekly.go:152: the API branch of GetPercentage and GetPercentageFloat
UsesAPIDataNever(w) == FALSE

UsesAPIData(w) == w.HasAPIData /\ w.WeeklyUtilization > 0

\* WeeklyStats.GetPercentage, weekly.go:146-191.  rnd is the value
\* r.Intn(100) yields for the day's seed (weekly.go:174-176).
GetPercentageNoUpperClamp(w, rnd) ==
    IF w.nil THEN 0
    ELSE IF UsesAPIData(w) THEN IntOfTimes100(w.WeeklyUtilization)
    ELSE IF w.TotalTokens = 0 THEN 0
    ELSE LET limit == GetWeeklyLimit(w.SubscriptionType, w.RateLimitTier)
         IN  IF limit = 0 THEN rnd
             ELSE TokensTimes100Over(w.TotalTokens, limit)

GetPercentage(w, rnd) ==
    IF w.nil THEN 0
    ELSE IF UsesAPIData(w)
         THEN Clamp99(IntOfTimes100(w.WeeklyUtilization))
    ELSE IF w.TotalTokens = 0 THEN 0
    ELSE LET limit == GetWeeklyLimit(w.SubscriptionType, w.RateLimitTier)
         IN  IF limit = 0 THEN rnd
             ELSE Clamp99(TokensTimes100Over(w.TotalTokens, limit))

\* WeeklyStats.GetFiveHourPercentage, weekly.go:219-231
GetFiveHourPercentage(w) ==
    IF w.nil \/ ~w.HasAPIData THEN 0
    ELSE Clamp99(IntOfTimes100(w.FiveHourUtilization))

\* ------------------------------------------------------------------------
\* The reconciliation of one cycle (app.go refresh, fetchAndApplyRateLimits)

\* the WeeklyStats CalculateWeeklyStats returns (weekly.go:75-115): the cache
\* total and the plan of the credentials; every API field at its zero value
NewWeeklyStatsOverPrevious(total, subscriptionType, rateLimitTier) ==
    IF weeklyStats.nil
    THEN [ nil                 |-> FALSE,
           TotalTokens         |-> total,
           SubscriptionType    |-> subscriptionType,
           RateLimitTier       |-> rateLimitTier,
           HasAPIData          |-> FALSE,
           FiveHourUtilization |-> 0,
           WeeklyUtilization   |-> 0,
           FiveHourReset       |-> ZeroTime,
           WeeklyReset         |-> ZeroTime,
           RateLimitStatus     |-> "",
           RepresentativeClaim |-> "",
           OpusUtilization     |-> 0,
           SonnetUtilization   |-> 0,
           OpusReset           |-> ZeroTime,
           SonnetReset         |-> ZeroTime ]
    ELSE [ weeklyStats EXCEPT !.TotalTokens      = total,
                              !.SubscriptionType = subscriptionType,
                              !.RateLimitTier    = rateLimitTier,
                              !.HasAPIData       = FALSE ]

NewWeeklyStats(total, subscriptionType, rateLimitTier) ==
    [ nil                 |-> FALSE,
      TotalTokens         |-> total,
      SubscriptionType    |-> subscriptionType,
      RateLimitTier       |-> rateLimitTier,
      HasAPIData          |-> FALSE,
      FiveHourUtilization |-> 0,
      WeeklyUtilization   |-> 0,
      FiveHourReset       |-> ZeroTime,
      WeeklyReset         |-> ZeroTime,
      RateLimitStatus     |-> "",
      RepresentativeClaim |-> "",
      OpusUtilization     |-> 0,
      SonnetUtilization   |-> 0,
      OpusReset           |-> ZeroTime,
      SonnetReset         |-> ZeroTime ]

\* app.go:192-203
ApplyRateLimitsOverTotals(w, r) ==
    [ w EXCEPT !.HasAPIData        = TRUE,
               !.WeeklyUtilization = r.WeeklyUtilization,
               !.TotalTokens       = 0 ]

ApplyRateLimits(w, r) ==
    [ w EXCEPT !.HasAPIData          = TRUE,
               !.FiveHourUtilization = r.FiveHourUtilization,
               !.WeeklyUtilization   = r.WeeklyUtilization,
               !.FiveHourReset       = r.FiveHourReset,
               !.WeeklyReset         = r.WeeklyReset,
               !.RateLimitStatus     = r.Status,
               !.RepresentativeClaim = r.RepresentativeClaim,
               !.OpusUtilization     = r.OpusUtilization,
               !.SonnetUtilization   = r.SonnetUtilization,
               !.OpusReset           = r.OpusReset,
               !.SonnetReset         = r.SonnetReset ]

\* ---- bounded inputs

\* utilizations the usage endpoint reports: 0 %, 12.5 %, ... , 112.5 %
ApiStep == 12500
MaxApiSteps == 9
ApiUtilizations == { k * ApiStep : k \in 0..MaxApiSteps }

ResetStrings == {"2026-01-05T12:00:00+02:00", "soon"}

Windows == [ utilization : ApiUtilizations, resets_at : ResetStrings ]

Buckets ==
    { Nil,
      [nil |-> FALSE, utilization |-> 150 * FP, resets_at |-> "2026-01-12T00:00:00Z"] }

UsageResponses ==
    [ five_hour : Windows, seven_day : Windows,
      seven_day_opus : Buckets, seven_day_sonnet : Buckets ]

\* weekly cache totals: none, the 1,000 tokens of the scenario, half of and
\* all of the pro limit, the limit of the largest plan
TokenTotals == {0, 1000, 22500000, 45000000, 900000000}

SubscriptionTypes == {"", "pro", "enterprise"}
RateLimitTiers == {"", "default_claude_max_5x", "default_raven"}

\* results of r.Intn(100)
RandValues == {0, 57, 99}

\* ---- SpecStats

InitStats ==
    /\ weeklyStats \in {Nil} \cup
          { NewWeeklyStats(t, s, r) :
              t \in TokenTotals, s \in SubscriptionTypes, r \in RateLimitTiers }
    /\ rateLimits = Nil
    /\ statsPc = "fetch"
    /\ percentage = None
    /\ fivePct = None

\* FetchRateLimits returned a snapshot: app.go:186-203
FetchApplied(usage) ==
    /\ statsPc = "fetch"
    /\ ~weeklyStats.nil
    /\ rateLimits' = parseUsageResponse(usage)
    /\ weeklyStats' = ApplyRateLimits(weeklyStats, rateLimits')
    /\ statsPc' = "show"
    /\ UNCHANGED <<percentage, fivePct>>
    /\ UNCHANGED <<apiClient, token, refreshToken, pc, attempt, err, histVars,
                   fileVars, appVars, urtVars>>
    /\ UNCHANGED <<schedVars, weekVars, crossVars, lockVars, extVars, heapVars>>

\* FetchRateLimits returned an error: app.go:187-190
FetchFailed ==
    /\ statsPc = "fetch"
    /\ ~weeklyStats.nil
    /\ statsPc' = "show"
    /\ UNCHANGED <<weeklyStats, rateLimits, percentage, fivePct>>
    /\ UNCHANGED <<apiClient, token, refreshToken, pc, attempt, err, histVars,
                   fileVars, appVars, urtVars>>
    /\ UNCHANGED <<schedVars, weekVars, crossVars, lockVars, extVars, heapVars>>

\* the getters as the tray and the tooltip call them; on a nil receiver too
ShowPercentages(rnd) ==
    /\ statsPc = IF weeklyStats.nil THEN "fetch" ELSE "show"
    /\ percentage' = GetPercentage(weeklyStats, rnd)
    /\ fivePct' = GetFiveHourPercentage(weeklyStats)
    /\ statsPc' = "shown"
    /\ UNCHANGED <<weeklyStats, rateLimits>>
    /\ UNCHANGED <<apiClient, token, refreshToken, pc, attempt, err, histVars,
                   fileVars, appVars, urtVars>>
    /\ UNCHANGED <<schedVars, weekVars, crossVars, lockVars, extVars, heapVars>>

\* ------------------------------------------------------------------------
\* JSON documents.  A file holds no document ("missing"), text that is not
\* JSON ("invalid"), or a JSON value with the form of its text: "pretty" as
\* other programs write it, "compact" as json.Marshal writes it.  A JSON
\* value is a string, an integer literal, null or an object (a function from
\* its keys).  An integer literal n is the pair hi, lo with
\* n = hi * 2^30 + lo, 0 <= lo < 2^30, so that literals beyond 2^53 fit.

TwoTo30 == 1024 * 1024 * 1024
TwoTo23 == 8 * 1024 * 1024

Str(x) == [t |-> "str", s |-> x]
Num(h, l) == [t |-> "num", hi |-> h, lo |-> l]
Obj(fn) == [t |-> "obj", f |-> fn]
Null == [t |-> "null"]

Missing == [kind |-> "missing"]
Invalid == [kind |-> "invalid"]
Json(form, value) == [kind |-> "json", form |-> form, top |-> value]

\* strconv.ParseFloat on an integer literal below 2^54: exact below 2^53;
\* from 2^53 on only even integers are float64 values, and an odd literal
\* lies half-way between two of them: it goes to the one with the even
\* mantissa, the multiple of 4.
RoundToFloat64(n) ==
    IF n.hi < TwoTo23 \/ n.lo % 2 = 0 THEN n
    ELSE IF (n.lo - 1) % 4 = 0 THEN [n EXCEPT !.lo = n.lo - 1]
    ELSE IF n.lo + 1 = TwoTo30 THEN [n EXCEPT !.hi = n.hi + 1, !.lo = 0]
    ELSE [n EXCEPT !.lo = n.lo + 1]

\* json.Unmarshal into interface{}: objects become map[string]interface{},
\* numbers become float64
RECURSIVE DecodeAny(_)
DecodeAny(v) ==
    CASE v.t = "num" -> RoundToFloat64(v)
      [] v.t = "obj" -> Obj([k \in DOMAIN v.f |-> DecodeAny(v.f[k])])
      [] OTHER -> v

\* json.Marshal of the decoded tree: compact text; a float64 holding an
\* integer below 1e21 is written with all its digits
Marshal(value) == Json("compact", value)

\* ---- the typed decoding of ParseCredentials (parser.go:26-38,
\* models.go:43-55)

\* a string field: a JSON string, null (the field keeps its zero value), or
\* a type error
StringField(o, k) ==
    IF k \notin DOMAIN o THEN [ok |-> TRUE, v |-> ""]
    ELSE CASE o[k].t = "str"  -> [ok |-> TRUE, v |-> o[k].s]
           [] o[k].t = "null" -> [ok |-> TRUE, v |-> ""]
           [] OTHER           -> [ok |-> FALSE, v |-> ""]

ZeroCredentials ==
    [err |-> "nil", AccessToken |-> "", RefreshToken |-> "",
     SubscriptionType |-> "", RateLimitTier |-> ""]

ParseCredentials(file) ==
    CASE file.kind = "missing" -> [ZeroCredentials EXCEPT !.err = "IOError"]
      [] file.kind = "invalid" -> [ZeroCredentials EXCEPT !.err = "ParseError"]
      [] OTHER ->
           IF file.top.t = "null" THEN ZeroCredentials
           ELSE IF file.top.t # "obj"
                THEN [ZeroCredentials EXCEPT !.err = "ParseError"]
           ELSE IF "claudeAiOauth" \notin DOMAIN file.top.f THEN ZeroCredentials
           ELSE LET sec == file.top.f["claudeAiOauth"]
                IN  IF sec.t = "null" THEN ZeroCredentials
                    ELSE IF sec.t # "obj"
                         THEN [ZeroCredentials EXCEPT !.err = "ParseError"]
                    ELSE LET a == StringField(sec.f, "accessToken")
                             r == StringField(sec.f, "refreshToken")
                             st == StringField(sec.f, "subscriptionType")
                             rt == StringField(sec.f, "rateLimitTier")
                             num == "expiresAt" \in DOMAIN sec.f =>
                                       sec.f["expiresAt"].t \in {"num", "null"}
                         IN  [ err |-> IF a.ok /\ r.ok /\ st.ok /\ rt.ok /\ num
                                       THEN "nil" ELSE "ParseError",
                               AccessToken |-> a.v,
                               RefreshToken |-> r.v,
                               SubscriptionType |-> st.v,
                               RateLimitTier |-> rt.v ]

\* ------------------------------------------------------------------------
\* UpdateRefreshToken (parser.go:149-218)

\* parser.go:163: rawCreds["claudeAiOauth"].(map[string]interface{})
OAuthSectionCreatedIfAbsent(raw) ==
    IF "claudeAiOauth" \in DOMAIN raw /\ raw["claudeAiOauth"].t = "obj"
    THEN [ok |-> TRUE, f |-> raw["claudeAiOauth"].f]
    ELSE [ok |-> TRUE, f |-> <<>>]

OAuthSection(raw) ==
    IF "claudeAiOauth" \in DOMAIN raw /\ raw["claudeAiOauth"].t = "obj"
    THEN [ok |-> TRUE, f |-> raw["claudeAiOauth"].f]
    ELSE [ok |-> FALSE, f |-> <<>>]

\* parser.go:169: claudeOAuth["refreshToken"] = newRefreshToken; the map is
\* shared with rawCreds
SetRefreshToken(raw, sec, newRefreshToken) ==
    ("claudeAiOauth" :> Obj(("refreshToken" :> Str(newRefreshToken)) @@ sec))
        @@ raw

\* parser.go:151-175, the part of the call that touches no file but to read
\* it: the error it returns, else the bytes to write
UpdatedData(file, newRefreshToken) ==
    CASE file.kind = "missing" -> [err |-> "NotFound", data |-> Missing]
      [] file.kind = "invalid" -> [err |-> "ParseError", data |-> Missing]
      [] OTHER ->
           IF file.top.t \notin {"obj", "null"}
           THEN [err |-> "ParseError", data |-> Missing]
           ELSE LET raw == IF file.top.t = "null" THEN <<>>
                           ELSE DecodeAny(file.top).f
                    sec == OAuthSection(raw)
                IN  IF ~sec.ok
                    THEN [err |-> "SchemaViolation", data |-> Missing]
                    ELSE [err |-> "nil",
                          data |-> Marshal(Obj(SetRefreshToken(
                                       raw, sec.f, newRefreshToken)))]

\* a file just created: no bytes
Empty == [kind |-> "empty"]

\* the call returns err; every path that created the temp file removes it
\* first (parser.go:194-214)
URTReturn(e) ==
    /\ urtPc' = "done"
    /\ urtErr' = e
    /\ urtFrom' = urtPc
    /\ tempFile' = Missing
    /\ UNCHANGED tempMode

\* parser.go:195, 201, 207, 213: os.Remove(tempPath) takes the temp file away
RemoveForgotten(temp) == temp

Removed(temp) == Missing

\* the call returns err from a step after os.CreateTemp: the temp file is
\* removed first (parser.go:193-215)
URTFail(e) ==
    /\ urtPc' = "done"
    /\ urtErr' = e
    /\ urtFrom' = urtPc
    /\ tempFile' = Removed(tempFile)
    /\ UNCHANGED tempMode

\* parser.go:151-175: os.ReadFile, json.Unmarshal, the update, json.Marshal
URTRead(newRefreshToken) ==
    /\ urtPc = "idle"
    /\ urtToken' = newRefreshToken
    /\ urtOld' = credFile
    /\ LET u == UpdatedData(credFile, newRefreshToken)
       IN  IF u.err # "nil"
           THEN /\ URTReturn(u.err)
                /\ UNCHANGED <<urtData, urtPerm>>
           ELSE /\ urtPc' = "stat"
                /\ urtData' = u.data
                /\ UNCHANGED <<urtPerm, urtErr, urtFrom, tempFile, tempMode>>
    /\ UNCHANGED <<credFile, credMode>>
    /\ UNCHANGED notFileVars
    /\ UNCHANGED extVars

\* parser.go:178-182: os.Stat
URTStat(ok) ==
    /\ urtPc = "stat"
    /\ IF ok /\ credFile.kind # "missing"
       THEN /\ urtPc' = "create"
            /\ urtPerm' = credMode
            /\ UNCHANGED <<urtErr, urtFrom, tempFile, tempMode>>
       ELSE /\ URTReturn("IOError")
            /\ UNCHANGED urtPerm
    /\ UNCHANGED <<urtToken, urtData, urtOld, credFile, credMode>>
    /\ UNCHANGED notFileVars
    /\ UNCHANGED extVars

\* parser.go:185-190: os.CreateTemp creates an empty file, mode 0600
URTCreateTemp(ok) ==
    /\ urtPc = "create"
    /\ IF ok
       THEN /\ urtPc' = "write"
            /\ tempFile' = Empty
            /\ tempMode' = "0600"
            /\ UNCHANGED <<urtErr, urtFrom>>
       ELSE URTReturn("IOError")
    /\ UNCHANGED <<urtToken, urtData, urtPerm, urtOld, credFile, credMode>>
    /\ UNCHANGED notFileVars
    /\ UNCHANGED extVars

\* what the temp file holds after tempFile.Write(updatedData): all the bytes,
\* or some of them when the write failed
Partial == [kind |-> "partial"]

Written(ok, data) == IF ok THEN data ELSE Partial

\* parser.go:193: the error of tempFile.Write is tested
WriteErrIgnored(ok) == FALSE

WriteErr(ok) == ~ok

\* parser.go:193-197: tempFile.Write
URTWrite(ok) ==
    /\ urtPc = "write"
    /\ IF ~WriteErr(ok)
       THEN /\ urtPc' = "close"
            /\ tempFile' = Written(ok, urtData)
            /\ UNCHANGED <<urtErr, urtFrom, tempMode>>
       ELSE URTFail("IOError")
    /\ UNCHANGED <<urtToken, urtData, urtPerm, urtOld, credFile, credMode>>
    /\ UNCHANGED notFileVars
    /\ UNCHANGED extVars

\* parser.go:200-203: tempFile.Close
URTClose(ok) ==
    /\ urtPc = "close"
    /\ IF ok
       THEN /\ urtPc' = "chmod"
            /\ UNCHANGED <<urtErr, urtFrom, tempFile, tempMode>>
       ELSE URTFail("IOError")
    /\ UNCHANGED <<urtToken, urtData, urtPerm, urtOld, credFile, credMode>>
    /\ UNCHANGED notFileVars
    /\ UNCHANGED extVars

\* parser.go:206-209: os.Chmod(tempPath, perm)
URTChmod(ok) ==
    /\ urtPc = "chmod"
    /\ IF ok
       THEN /\ urtPc' = "rename"
            /\ tempMode' = urtPerm
            /\ UNCHANGED <<urtErr, urtFrom, tempFile>>
       ELSE URTFail("IOError")
    /\ UNCHANGED <<urtToken, urtData, urtPerm, urtOld, credFile, credMode>>
    /\ UNCHANGED notFileVars
    /\ UNCHANGED extVars

\* parser.go:212: what path holds after os.Rename(tempPath, path): the temp
\* file, whole, in place of whatever path held
OverwrittenInPlace(current, temp) ==
    IF current = temp THEN temp ELSE Partial

Renamed(current, temp) == temp

\* parser.go:212-217: os.Rename(tempPath, path), then return nil
URTRename(ok) ==
    /\ urtPc = "rename"
    /\ IF ok
       THEN /\ credFile' = Renamed(credFile, tempFile)
            /\ credMode' = tempMode
            /\ lastWriter' = "update"
            /\ lastDoc' = urtData
            /\ URTReturn("nil")
       ELSE /\ URTFail("IOError")
            /\ UNCHANGED <<credFile, credMode, lastWriter, lastDoc>>
    /\ UNCHANGED <<urtToken, urtData, urtPerm, urtOld, extWrites>>
    /\ UNCHANGED notFileVars

\* the caller takes the result; the next call may start
URTDone ==
    /\ urtPc = "done"
    /\ urtPc' = "idle"
    /\ urtErr' = None
    /\ urtFrom' = None
    /\ UNCHANGED <<urtToken, urtData, urtPerm, urtOld, tempFile, tempMode,
                   credFile, credMode>>
    /\ UNCHANGED notFileVars
    /\ UNCHANGED extVars

\* ------------------------------------------------------------------------
\* The rate-limit client (client.go:112-248), one HTTP exchange per step

\* client.go:143
RetriesExhaustedOneLate(a) == a > maxRetries

RetriesExhausted(a) == a >= maxRetries

\* client.go:165: the attempt the retry runs with
NextAttempt(a) == a + 1

\* client.go:234 and 161: the token the client holds after a 200 response,
\* current the token it held
AdoptedTokenStale(current, accessToken) == current

AdoptedToken(current, accessToken) == accessToken

\* client.go:237: the response carries a refresh token other than the one sent
IsRotation(received, current) == received # "" /\ received # current

\* outcomes of an HTTP exchange: transport error, 401, another status that
\* is not 200, 200 with a body that does not decode, 200
UsageOutcomes == {"neterr", "unauthorized", "status", "badbody", "ok"}
RefreshOutcomes == {"neterr", "status", "badbody", "ok"}

\* client.go:216: httpClient.Do failed
TransportFailedIgnored(resp) == FALSE

TransportFailed(resp) == resp = "neterr"

\* client.go:222: resp.StatusCode != http.StatusOK
StatusNotOKIgnored(resp) == FALSE

StatusNotOK(resp) == resp = "status"

\* client.go:229: the body does not decode
BodyUndecodableAccepted(resp) == FALSE

BodyUndecodable(resp) == resp = "badbody"

\* the usage bodies of this specification
FewUsageResponses ==
    { u \in UsageResponses :
        /\ u.five_hour.resets_at = "soon"
        /\ u.seven_day.resets_at = "soon"
        /\ u.seven_day_opus = Nil
        /\ u.seven_day_sonnet = Nil
        /\ u.five_hour.utilization = 4 * ApiStep
        /\ u.seven_day.utilization \in {0, 8 * ApiStep} }

\* client.go:146: c.refreshToken == ""
NoRefreshTokenOverlooked(r) == FALSE

NoRefreshToken(r) == r = ""

\* fetchRateLimitsWithRetry returns
FetchReturn(e, data) ==
    /\ pc' = "done"
    /\ err' = e
    /\ rateLimits' = data

\* fetchRateLimitsWithRetry up to the answer of the usage endpoint and what
\* follows it, short of the refresh exchange (client.go:117-152, 168-181)
UsageRequest(resp, usage) ==
    /\ pc = "usage"
    /\ IF token = ""
       THEN /\ FetchReturn("NoToken", Nil)
            /\ UNCHANGED <<requests, sentToken, sentAt, only401, lastUsage>>
       ELSE /\ requests' = requests + 1
            /\ lastUsage' = resp
            /\ sentToken' = token
            /\ sentAt' = refreshes
            /\ only401' = (only401 /\ resp = "unauthorized")
            /\ CASE resp = "neterr" -> FetchReturn("NetworkError", Nil)
                 [] resp = "unauthorized" ->
                      IF RetriesExhausted(attempt)
                      THEN FetchReturn("MaxRetries", Nil)
                      ELSE IF NoRefreshToken(refreshToken)
                           THEN FetchReturn("NoRefreshToken", Nil)
                           ELSE /\ pc' = "refresh"
                                /\ UNCHANGED <<err, rateLimits>>
                 [] resp = "status" -> FetchReturn("ApiStatus", Nil)
                 [] resp = "badbody" -> FetchReturn("ParseError", Nil)
                 [] resp = "ok" -> FetchReturn("nil", parseUsageResponse(usage))
    /\ UNCHANGED <<apiClient, token, refreshToken, attempt, refreshes,
                   sentRefresh, lastRefresh, granted, rotated, allGranted>>
    /\ UNCHANGED <<fileVars, appVars, weeklyStats, statsPc, percentage,
                   fivePct, urtVars>>
    /\ UNCHANGED <<schedVars, weekVars, crossVars, lockVars, extVars, heapVars>>

\* RefreshAccessToken and the rest of the 401 branch (client.go:155-165,
\* 186-248).  A 200 response carries accessToken and receivedRefresh ("" when
\* the field is absent); warned tells whether the warning file could be
\* written.  The credentials file is not written and no callback is called.
RefreshExchange(resp, accessToken, receivedRefresh, warned) ==
    /\ pc = "refresh"
    /\ IF refreshToken = ""
       THEN /\ FetchReturn("RefreshFailed", Nil)
            /\ UNCHANGED <<token, refreshToken, attempt, warningFile,
                           refreshes, sentRefresh, lastRefresh, granted,
                           rotated, allGranted>>
       ELSE /\ refreshes' = refreshes + 1
            /\ sentRefresh' = refreshToken
            /\ lastRefresh' = resp
            /\ allGranted' = (allGranted /\ resp = "ok" /\ accessToken # "")
            /\ IF TransportFailed(resp) \/ StatusNotOK(resp)
                  \/ BodyUndecodable(resp)
               THEN /\ FetchReturn("RefreshFailed", Nil)
                    /\ UNCHANGED <<token, refreshToken, attempt, warningFile,
                                   granted, rotated>>
               ELSE /\ token' = AdoptedToken(token, accessToken)
                    /\ granted' = accessToken
                    /\ IF IsRotation(receivedRefresh, refreshToken)
                       THEN /\ refreshToken' = receivedRefresh
                            /\ rotated' = receivedRefresh
                            /\ warningFile' = IF warned THEN receivedRefresh
                                              ELSE warningFile
                       ELSE UNCHANGED <<refreshToken, rotated, warningFile>>
                    /\ attempt' = NextAttempt(attempt)
                    /\ pc' = "usage"
                    /\ UNCHANGED <<err, rateLimits>>
    /\ UNCHANGED <<apiClient, requests, sentToken, sentAt, only401, lastUsage>>
    /\ UNCHANGED <<credFile, credMode, callbackCalls, appVars, weeklyStats,
                   statsPc, percentage, fivePct, urtVars>>
    /\ UNCHANGED <<schedVars, weekVars, crossVars, lockVars, extVars, heapVars>>

\* ------------------------------------------------------------------------
\* The App's refresh cycle around the client (app.go:111-209)

\* claudeAiOauth as the CLI writes it; expiresAt is 1769876156710
OAuthObject(access, refresh, expires) ==
    Obj([ accessToken      |-> Str(access),
          refreshToken     |-> Str(refresh),
          expiresAt        |-> expires,
          subscriptionType |-> Str("team"),
          rateLimitTier    |-> Str("default_claude_max_5x") ])

ExpiresAt == Num(1648, 349630758)

\* the credential files of this specification: logged in with and without a
\* refresh token, and not logged in
AppCredFiles ==
    { Json("pretty", Obj([claudeAiOauth |-> OAuthObject("A0", r, ExpiresAt)])) :
        r \in {"R0", ""} }
    \cup { Json("pretty", Obj([claudeAiOauth |-> OAuthObject("", "R0", ExpiresAt)])),
           Invalid }

\* weekly totals of the cache in this specification
FewTokenTotals == {0, 22500000}

\* refresh() cannot use the credentials: app.go:116-129
LoadFails ==
    /\ pc = "idle"
    /\ LET creds == ParseCredentials(credFile)
       IN  creds.err # "nil" \/ creds.AccessToken = ""
    /\ tray' = "error"
    /\ UNCHANGED <<clientVars, histVars, fileVars, statsVars, urtVars>>
    /\ UNCHANGED <<schedVars, weekVars, crossVars, lockVars, extVars, heapVars>>

\* refresh() up to the call of FetchRateLimits: app.go:116-144, 162-186,
\* client.go:47-64, 112-114.  total is the week's total of the stats cache.
\* The client is created with the file's access token (NewClient) or, when
\* it exists, given the file's access token (SetToken); SetRefreshToken gives
\* it the file's refresh token in both cases.
StartFetch(total) ==
    /\ pc = "idle"
    /\ LET creds == ParseCredentials(credFile)
       IN  /\ creds.err = "nil"
           /\ creds.AccessToken # ""
           /\ weeklyStats' = NewWeeklyStats(total, creds.SubscriptionType,
                                            creds.RateLimitTier)
           /\ token' = creds.AccessToken
           /\ refreshToken' = creds.RefreshToken
    /\ apiClient' = "set"
    /\ pc' = "usage"
    /\ attempt' = 0
    /\ err' = None
    /\ rateLimits' = Nil
    /\ requests' = 0
    /\ refreshes' = 0
    /\ sentToken' = None
    /\ sentAt' = 0
    /\ sentRefresh' = None
    /\ lastRefresh' = None
    /\ granted' = None
    /\ rotated' = None
    /\ only401' = TRUE
    /\ allGranted' = TRUE
    /\ lastUsage' = None
    /\ UNCHANGED <<fileVars, appVars, statsPc, percentage, fivePct, urtVars>>
    /\ UNCHANGED <<schedVars, weekVars, lockVars, extVars, heapVars>>

BeginFetch(total) ==
    /\ StartFetch(total)
    /\ UNCHANGED crossVars

\* the same step, noting how the cycle before it ended
BeginNextFetch(total) ==
    /\ StartFetch(total)
    /\ heldBefore' = IF apiClient = "nil" THEN None ELSE token
    /\ errBefore' = err
    /\ rotatedBefore' = IF rotated # None THEN rotated ELSE rotatedBefore

\* FetchRateLimits has returned: the rest of fetchAndApplyRateLimits and of
\* refresh(), app.go:187-203, 146-158, 212-231
EndFetch(rnd) ==
    /\ pc = "done"
    /\ pc' = "idle"
    /\ weeklyStats' = IF err = "nil" THEN ApplyRateLimits(weeklyStats, rateLimits)
                      ELSE weeklyStats
    /\ percentage' = GetPercentage(weeklyStats', rnd)
    /\ fivePct' = GetFiveHourPercentage(weeklyStats')
    /\ tray' = "stats"
    /\ UNCHANGED <<apiClient, token, refreshToken, attempt, err, rateLimits,
                   histVars, fileVars, statsPc, urtVars>>
    /\ UNCHANGED <<schedVars, weekVars, crossVars, lockVars, extVars, heapVars>>

vars == <<clientVars, histVars, fileVars, appVars, statsVars, urtVars,
          schedVars, weekVars, crossVars, lockVars, extVars, heapVars>>

\* no clock read and no cache loaded
NoWeek == now = Nil /\ cache = Nil

\* nothing is in progress
Quiet ==
    /\ apiClient = "nil"
    /\ token = ""
    /\ refreshToken = ""
    /\ pc = "idle"
    /\ attempt = 0
    /\ err = None
    /\ rateLimits = Nil
    /\ requests = 0
    /\ refreshes = 0
    /\ sentToken = None
    /\ sentAt = 0
    /\ sentRefresh = None
    /\ lastRefresh = None
    /\ granted = None
    /\ rotated = None
    /\ only401 = TRUE
    /\ allGranted = TRUE
    /\ warningFile = None
    /\ callbackCalls = {}
    /\ tray = "init"
    /\ urtPc = "idle"
    /\ urtToken = None
    /\ urtData = Missing
    /\ urtPerm = None
    /\ urtErr = None
    /\ urtOld = Missing
    /\ tempFile = Missing
    /\ tempMode = None
    /\ urtFrom = None
    /\ readyPc = "start"
    /\ loopPc = "none"
    /\ menuPc = "none"
    /\ refreshCh = 0
    /\ tickerC = 0
    /\ stopCh = "open"
    /\ triggers = 0
    /\ accepted = 0
    /\ manualCycles = 0
    /\ failedInLoop = FALSE
    /\ lastUsage = None
    /\ heldBefore = None
    /\ errBefore = None
    /\ rotatedBefore = None
    /\ statsMu = [writer |-> "none", readers |-> 0]
    /\ stats = "nil"
    /\ readerPc = "idle"
    /\ steps = <<>>
    /\ local = [g \in Goroutines |-> "nil"]
    /\ objects = [o \in Objects |-> "none"]
    /\ held = "nil"
    /\ lastWriter = "none"
    /\ lastDoc = Missing
    /\ extWrites = 0

Init ==
    /\ Quiet
    /\ NoWeek
    /\ credFile \in AppCredFiles
    /\ credMode = "0600"
    /\ weeklyStats = Nil
    /\ statsPc = "fetch"
    /\ percentage = None
    /\ fivePct = None

Next ==
    \/ LoadFails
    \/ \E total \in FewTokenTotals : BeginFetch(total)
    \/ \E resp \in UsageOutcomes, usage \in FewUsageResponses :
          UsageRequest(resp, usage)
    \/ \E resp \in RefreshOutcomes, a \in AccessTokens, r \in RefreshTokens,
          warned \in BOOLEAN :
          RefreshExchange(resp, a, r, warned)
    \/ \E rnd \in RandValues : EndFetch(rnd)

Spec == Init /\ [][Next]_vars

\* ------------------------------------------------------------------------
\* SpecCycles: the cycles of one App over a credentials file nothing else
\* writes, each cycle noting how the one before it ended

CycleCredFile ==
    Json("pretty", Obj([claudeAiOauth |-> OAuthObject("A0", "R0", ExpiresAt)]))

CycleTotals == {22500000}
CycleAccessTokens == {"", "A1"}
CycleRefreshTokens == {"", "R1"}

InitCycles ==
    /\ Quiet
    /\ NoWeek
    /\ credFile = CycleCredFile
    /\ credMode = "0600"
    /\ weeklyStats = Nil
    /\ statsPc = "fetch"
    /\ percentage = None
    /\ fivePct = None

NextCycles ==
    \/ \E total \in CycleTotals : BeginNextFetch(total)
    \/ \E resp \in UsageOutcomes, usage \in FewUsageResponses :
          UsageRequest(resp, usage)
    \/ \E resp \in RefreshOutcomes, a \in CycleAccessTokens,
          r \in CycleRefreshTokens, warned \in BOOLEAN :
          RefreshExchange(resp, a, r, warned)
    \/ \E rnd \in RandValues : EndFetch(rnd)

SpecCycles == InitCycles /\ [][NextCycles]_vars

\* ------------------------------------------------------------------------
\* SpecStats: one reconciliation over the bounded inputs

InitStatsAll ==
    /\ Quiet
    /\ NoWeek
    /\ credFile = Missing
    /\ credMode = None
    /\ InitStats

NextStats ==
    \/ \E usage \in UsageResponses : FetchApplied(usage)
    \/ FetchFailed
    \/ \E rnd \in RandValues : ShowPercentages(rnd)

SpecStats == InitStatsAll /\ [][NextStats]_vars

\* ------------------------------------------------------------------------
\* SpecCred: UpdateRefreshToken over the bounded credential documents

\* integer literals of a document: small, the expiry of the test, and three
\* around 2^53
Literals ==
    { Num(0, 7), ExpiresAt, Num(TwoTo23, 0), Num(TwoTo23, 1), Num(TwoTo23, 3) }

\* the sections this program does not know: at most MaxUnrelated top-level
\* keys beside claudeAiOauth
MaxUnrelated == 2

UnrelatedKey(i) ==
    CASE i = 1 -> "mcpOAuth"
      [] i = 2 -> "oauthAccount"
      [] OTHER -> "section" \o ToString(i)

UnrelatedValues ==
    { Obj([clientId |-> Str("testClientId"), expiresAt |-> n]) :
        n \in {ExpiresAt, Num(TwoTo23, 1)} }
    \cup { Str("value") }

UnrelatedSections ==
    UNION { [ { UnrelatedKey(i) : i \in ks } -> UnrelatedValues ] :
              ks \in SUBSET (1..MaxUnrelated) }

\* what the claudeAiOauth key holds when it is there
OAuthValues ==
    { OAuthObject("A0", "R0", n) : n \in Literals }
    \cup { Obj([accessToken |-> Str("A0"), expiresAt |-> ExpiresAt]),
           Str("revoked"), Null }

TopLevels ==
    UnrelatedSections
    \cup { ("claudeAiOauth" :> o) @@ u : o \in OAuthValues, u \in UnrelatedSections }

CredFiles ==
    { Missing, Invalid, Json("pretty", Null), Json("pretty", Str("text")) }
    \cup { Json(form, Obj(t)) : form \in {"pretty", "compact"}, t \in TopLevels }

FileModes == {"0600", "0644"}

NewRefreshTokens == {"R1", "R2"}

InitCred ==
    /\ Quiet
    /\ NoWeek
    /\ credFile \in CredFiles
    /\ credMode \in FileModes
    /\ weeklyStats = Nil
    /\ statsPc = "fetch"
    /\ percentage = None
    /\ fivePct = None

NextCred ==
    \/ \E t \in NewRefreshTokens : URTRead(t)
    \/ \E ok \in BOOLEAN : URTStat(ok)
    \/ \E ok \in BOOLEAN : URTCreateTemp(ok)
    \/ \E ok \in BOOLEAN : URTWrite(ok)
    \/ \E ok \in BOOLEAN : URTClose(ok)
    \/ \E ok \in BOOLEAN : URTChmod(ok)
    \/ \E ok \in BOOLEAN : URTRename(ok)
    \/ URTDone

SpecCred == InitCred /\ [][NextCred]_vars

\* ------------------------------------------------------------------------
\* SpecCredShared: UpdateRefreshToken beside another process that replaces
\* the credentials file, whole, whenever it likes.  UpdateRefreshToken takes
\* no lock (parser.go:149-218), so the other process's write falls between
\* any two of its steps.

\* writes of the other process in one behaviour
MaxExternalWrites == 1

\* the documents the other process writes: a login of its own
ExternalDocs ==
    { Json(form, Obj([claudeAiOauth |-> OAuthObject("B0", "R8", ExpiresAt)])) :
        form \in {"pretty", "compact"} }

\* the other process replaces the file
ExternalWrite(doc) ==
    /\ extWrites < MaxExternalWrites
    /\ credFile' = doc
    /\ lastWriter' = "external"
    /\ lastDoc' = doc
    /\ extWrites' = extWrites + 1
    /\ UNCHANGED <<credMode, urtVars>>
    /\ UNCHANGED notFileVars

NextCredShared ==
    \/ \E t \in NewRefreshTokens : URTRead(t)
    \/ \E ok \in BOOLEAN : URTStat(ok)
    \/ \E ok \in BOOLEAN : URTCreateTemp(ok)
    \/ \E ok \in BOOLEAN : URTWrite(ok)
    \/ \E ok \in BOOLEAN : URTClose(ok)
    \/ \E ok \in BOOLEAN : URTChmod(ok)
    \/ \E ok \in BOOLEAN : URTRename(ok)
    \/ URTDone
    \/ \E doc \in ExternalDocs : ExternalWrite(doc)

SpecCredShared == InitCred /\ [][NextCredShared]_vars

\* ------------------------------------------------------------------------
\* The goroutines of the App (app.go:50-108, tray.go:40-61, menu.go:133-176):
\* onReady, which runs the initial refresh and starts refreshLoop; refreshLoop;
\* and the goroutine of HandleMenuEvents, which serves the Refresh and Quit
\* items.  refresh() is taken statement by statement, so that two executions
\* of it could overlap if the code let them, and so that a reader of App.stats
\* (GetStats, the goroutine of performUpdate) can run between any two.

\* app.go:45: refreshCh: make(chan struct{}, 1)
RefreshChCap == 1

\* clicks on Refresh in one behaviour
MaxClicks == 3

\* app.go:72-80: the statement of onReady that follows step
OnReadyNextLoopFirst(step) ==
    CASE step = "start"   -> "spawn"
      [] step = "spawn"   -> "refresh"
      [] step = "refresh" -> "done"

OnReadyNext(step) ==
    CASE step = "start"   -> "refresh"
      [] step = "refresh" -> "spawn"
      [] step = "spawn"   -> "done"

\* app.go:92-97: a.refresh() returns nothing; whatever the cycle met, the
\* loop goes back to its select
AfterCycleFatal(failed) == IF failed THEN "stopped" ELSE "select"

AfterCycle(failed) == "select"

\* app.go:104: the send on refreshCh cannot proceed
ChanFullAtTwo(n) == n >= RefreshChCap + 1

ChanFull(n) == n >= RefreshChCap

\* app.go:111-158: the statement of refresh() that follows step, for usable
\* credentials: the credential load ("refresh"), ParseStatsCache,
\* CalculateWeeklyStats, fetchAndApplyRateLimits, statsMu.Lock, a.stats =
\* weeklyStats, statsMu.Unlock, updateTray
RefreshNextUnlocked(step) ==
    CASE step = "refresh"   -> "parse"
      [] step = "parse"     -> "aggregate"
      [] step = "aggregate" -> "fetch"
      [] step = "fetch"     -> "swap"
      [] step = "swap"      -> "tray"
      [] step = "tray"      -> "return"

RefreshNextSwapFirst(step) ==
    CASE step = "refresh"   -> "parse"
      [] step = "parse"     -> "aggregate"
      [] step = "aggregate" -> "lock"
      [] step = "lock"      -> "swap"
      [] step = "swap"      -> "unlock"
      [] step = "unlock"    -> "fetch"
      [] step = "fetch"     -> "tray"
      [] step = "tray"      -> "return"

RefreshNext(step) ==
    CASE step = "refresh"   -> "parse"
      [] step = "parse"     -> "aggregate"
      [] step = "aggregate" -> "fetch"
      [] step = "fetch"     -> "lock"
      [] step = "lock"      -> "swap"
      [] step = "swap"      -> "unlock"
      [] step = "unlock"    -> "tray"
      [] step = "tray"      -> "return"

RefreshSteps ==
    {"refresh", "parse", "aggregate", "fetch", "lock", "swap", "unlock",
     "tray"}

\* close(ch): closing a closed channel panics
CloseChan(ch) == IF ch = "open" THEN "closed" ELSE "panic"

\* menu.go:159-171: after the callback of Refresh the handler goes round its
\* loop, after the callback of Quit it returns
AfterItemListens(item) == "listen"

AfterItem(item) == IF item = "quit" THEN "exited" ELSE "listen"

PcOf(g) == IF g = "onReady" THEN readyPc ELSE loopPc

\* the executions of refresh() in progress
Refreshing == { g \in Goroutines : PcOf(g) \in RefreshSteps }

\* app.go:116-129: the credentials cannot be used
CredentialsUnusable ==
    LET creds == ParseCredentials(credFile)
    IN  creds.err # "nil" \/ creds.AccessToken = ""

notSchedVars == <<clientVars, histVars, fileVars, statsVars, urtVars,
                  weekVars, crossVars, extVars>>

\* tray.go:40-61, app.go:72-76: systray calls the ready callback, which
\* starts the goroutine of HandleMenuEvents and then onReady
TrayRun ==
    /\ readyPc = "start"
    /\ readyPc' = OnReadyNext("start")
    /\ menuPc' = "listen"
    /\ UNCHANGED <<loopPc, refreshCh, tickerC, stopCh, triggers, accepted,
                   manualCycles, failedInLoop>>
    /\ UNCHANGED <<notSchedVars, appVars>>
    /\ UNCHANGED <<lockVars, heapVars>>

\* g leaves refresh()
RefreshReturns(g, failed) ==
    IF g = "onReady"
    THEN /\ readyPc' = OnReadyNext("refresh")
         /\ UNCHANGED <<loopPc, failedInLoop>>
    ELSE /\ loopPc' = AfterCycle(failed)
         /\ failedInLoop' = (failedInLoop \/ failed)
         /\ UNCHANGED readyPc

\* g goes on to the statement of refresh() after step
RefreshGoes(g, step) ==
    IF RefreshNext(step) = "return"
    THEN RefreshReturns(g, FALSE)
    ELSE /\ IF g = "onReady"
            THEN readyPc' = RefreshNext(step) /\ UNCHANGED loopPc
            ELSE loopPc' = RefreshNext(step) /\ UNCHANGED readyPc
         /\ UNCHANGED failedInLoop

\* app.go:234-243: setError shows the error icon; App.stats is not touched
StatsClearedOnError(current) == "nil"

StatsAfterError(current) == current

\* app.go:111-129: refresh() loads the credentials; without usable
\* credentials it shows the error and returns
RefreshLoad(g) ==
    /\ PcOf(g) = "refresh"
    /\ steps' = <<"load">>
    /\ IF CredentialsUnusable
       THEN /\ tray' = "error"
            /\ stats' = StatsAfterError(stats)
            /\ RefreshReturns(g, TRUE)
       ELSE /\ RefreshGoes(g, "refresh")
            /\ UNCHANGED <<tray, stats>>
    /\ UNCHANGED <<menuPc, refreshCh, tickerC, stopCh, triggers, accepted,
                   manualCycles>>
    /\ UNCHANGED notSchedVars
    /\ UNCHANGED <<statsMu, readerPc, heapVars>>

\* the objects App.stats, the reader or a refresh() in progress point to
Reachable == ({stats, held} \cup { local[g] : g \in Goroutines }) \ {"nil"}

\* an object nothing points to any more is the garbage collector's
Collected(objs, pointers) ==
    [ o \in Objects |-> IF o \in pointers THEN objs[o] ELSE "none" ]

\* weekly.go:82: stats := &WeeklyStats{...} is an object of its own; the
\* WeeklyStats App.stats points to is not written over
FreshStatsInPlace(used) ==
    IF stats = "nil" THEN CHOOSE o \in Objects : o \notin used ELSE stats

FreshStats(used) == CHOOSE o \in Objects : o \notin used

\* app.go:131-144: ParseStatsCache, CalculateWeeklyStats and
\* fetchAndApplyRateLimits, each in its turn; they touch neither App.stats
\* nor its lock.  CalculateWeeklyStats allocates the WeeklyStats of the cycle
\* and fills in what comes of the cache; fetchAndApplyRateLimits writes the
\* snapshot into it when the API call succeeded (ok) and nothing when it
\* failed; either way refresh() goes on.
RefreshWork(g, ok) ==
    /\ PcOf(g) \in {"parse", "aggregate", "fetch"}
    /\ steps' = Append(steps, PcOf(g))
    /\ CASE PcOf(g) = "parse" -> UNCHANGED <<local, objects>>
         [] PcOf(g) = "aggregate" ->
              LET o == FreshStats(Reachable)
              IN  /\ local' = [local EXCEPT ![g] = o]
                  /\ objects' = [objects EXCEPT ![o] = "cache"]
         [] PcOf(g) = "fetch" ->
              /\ objects' = [objects EXCEPT
                                ![local[g]] = IF ok THEN "api" ELSE @]
              /\ UNCHANGED local
    /\ RefreshGoes(g, PcOf(g))
    /\ UNCHANGED <<menuPc, refreshCh, tickerC, stopCh, triggers, accepted,
                   manualCycles>>
    /\ UNCHANGED <<notSchedVars, appVars>>
    /\ UNCHANGED <<statsMu, stats, readerPc, held>>

\* app.go:147: a.statsMu.Lock() waits until nobody holds the lock
RefreshLock(g) ==
    /\ PcOf(g) = "lock"
    /\ statsMu.writer = "none"
    /\ statsMu.readers = 0
    /\ statsMu' = [statsMu EXCEPT !.writer = g]
    /\ RefreshGoes(g, "lock")
    /\ UNCHANGED <<menuPc, refreshCh, tickerC, stopCh, triggers, accepted,
                   manualCycles>>
    /\ UNCHANGED <<notSchedVars, appVars>>
    /\ UNCHANGED <<stats, readerPc, steps, heapVars>>

\* app.go:148: a.stats = weeklyStats
RefreshSwap(g) ==
    /\ PcOf(g) = "swap"
    /\ stats' = local[g]
    /\ objects' = Collected(objects, Reachable \ ({stats} \ {held}))
    /\ steps' = Append(steps, "swap")
    /\ RefreshGoes(g, "swap")
    /\ UNCHANGED <<menuPc, refreshCh, tickerC, stopCh, triggers, accepted,
                   manualCycles>>
    /\ UNCHANGED <<notSchedVars, appVars>>
    /\ UNCHANGED <<statsMu, readerPc, local, held>>

\* app.go:149: a.statsMu.Unlock()
RefreshUnlock(g) ==
    /\ PcOf(g) = "unlock"
    /\ statsMu' = [statsMu EXCEPT !.writer = "none"]
    /\ RefreshGoes(g, "unlock")
    /\ UNCHANGED <<menuPc, refreshCh, tickerC, stopCh, triggers, accepted,
                   manualCycles>>
    /\ UNCHANGED <<notSchedVars, appVars>>
    /\ UNCHANGED <<stats, readerPc, steps, heapVars>>

\* app.go:152-158: updateTray reads the WeeklyStats of the cycle, the log
\* line, and refresh() returns
RefreshFinish(g) ==
    /\ PcOf(g) = "tray"
    /\ tray' = "stats"
    /\ steps' = Append(steps, "tray")
    /\ local' = [local EXCEPT ![g] = "nil"]
    /\ RefreshGoes(g, "tray")
    /\ UNCHANGED <<menuPc, refreshCh, tickerC, stopCh, triggers, accepted,
                   manualCycles>>
    /\ UNCHANGED notSchedVars
    /\ UNCHANGED <<statsMu, stats, readerPc, objects, held>>

\* app.go:247, 267: a.statsMu.RLock() waits while the exclusive lock is held
ReaderRLock ==
    /\ readerPc = "idle"
    /\ statsMu.writer = "none"
    /\ statsMu' = [statsMu EXCEPT !.readers = @ + 1]
    /\ readerPc' = "read"
    /\ UNCHANGED <<schedVars, notSchedVars, appVars, stats, steps, heapVars>>

\* app.go:249, 268: the pointer is copied out
ReaderRead ==
    /\ readerPc = "read"
    /\ readerPc' = "runlock"
    /\ held' = stats
    /\ UNCHANGED <<schedVars, notSchedVars, appVars, statsMu, stats, steps,
                   local, objects>>

\* app.go:248, 269: a.statsMu.RUnlock()
ReaderRUnlock ==
    /\ readerPc = "runlock"
    /\ statsMu' = [statsMu EXCEPT !.readers = @ - 1]
    /\ readerPc' = "use"
    /\ UNCHANGED <<schedVars, notSchedVars, appVars, stats, steps, heapVars>>

\* app.go:270-272: the reader looks at the WeeklyStats it got, with no lock
\* held, and lets go of it
ReaderUse ==
    /\ readerPc = "use"
    /\ readerPc' = "idle"
    /\ held' = "nil"
    /\ objects' = Collected(objects, Reachable \ ({held} \ {stats}))
    /\ UNCHANGED <<schedVars, notSchedVars, appVars, statsMu, stats, steps,
                   local>>

\* app.go:79, 83-85: go a.refreshLoop(); the loop creates its ticker
OnReadySpawn ==
    /\ readyPc = "spawn"
    /\ readyPc' = OnReadyNext("spawn")
    /\ loopPc' = "select"
    /\ UNCHANGED <<menuPc, refreshCh, tickerC, stopCh, triggers, accepted,
                   manualCycles, failedInLoop>>
    /\ UNCHANGED <<notSchedVars, appVars>>
    /\ UNCHANGED <<lockVars, heapVars>>

\* the ticker fires: its channel holds one value, a tick that finds it full
\* is dropped; ticker.Stop (app.go:85) ends it
Tick ==
    /\ loopPc \notin {"none", "stopped"}
    /\ tickerC = 0
    /\ tickerC' = 1
    /\ UNCHANGED <<readyPc, loopPc, menuPc, refreshCh, stopCh, triggers,
                   accepted, manualCycles, failedInLoop>>
    /\ UNCHANGED <<notSchedVars, appVars>>
    /\ UNCHANGED <<lockVars, heapVars>>

\* app.go:89-91: the select takes the case of stopCh
LoopStop ==
    /\ loopPc = "select"
    /\ stopCh = "closed"
    /\ loopPc' = "stopped"
    /\ UNCHANGED <<readyPc, menuPc, refreshCh, tickerC, stopCh, triggers,
                   accepted, manualCycles, failedInLoop>>
    /\ UNCHANGED <<notSchedVars, appVars>>
    /\ UNCHANGED <<lockVars, heapVars>>

\* app.go:92-94: the select takes the case of ticker.C.  A select with
\* several ready cases takes any one of them.
LoopTick ==
    /\ loopPc = "select"
    /\ tickerC > 0
    /\ tickerC' = tickerC - 1
    /\ loopPc' = "refresh"
    /\ UNCHANGED <<readyPc, menuPc, refreshCh, stopCh, triggers, accepted,
                   manualCycles, failedInLoop>>
    /\ UNCHANGED <<notSchedVars, appVars>>
    /\ UNCHANGED <<lockVars, heapVars>>

\* app.go:95-96: the select takes the case of refreshCh
LoopManual ==
    /\ loopPc = "select"
    /\ refreshCh > 0
    /\ refreshCh' = refreshCh - 1
    /\ manualCycles' = manualCycles + 1
    /\ loopPc' = "refresh"
    /\ UNCHANGED <<readyPc, menuPc, tickerC, stopCh, triggers, accepted,
                   failedInLoop>>
    /\ UNCHANGED <<notSchedVars, appVars>>
    /\ UNCHANGED <<lockVars, heapVars>>

\* menu.go:159-162, app.go:52-55: Refresh is clicked, the handler calls
\* triggerRefresh
ClickRefresh ==
    /\ menuPc = "listen"
    /\ triggers < MaxClicks
    /\ menuPc' = "trigger"
    /\ triggers' = triggers + 1
    /\ UNCHANGED <<readyPc, loopPc, refreshCh, tickerC, stopCh, accepted,
                   manualCycles, failedInLoop>>
    /\ UNCHANGED <<notSchedVars, appVars>>
    /\ UNCHANGED <<lockVars, heapVars>>

\* app.go:102-108: the select of triggerRefresh, send or default
TriggerRefresh ==
    /\ menuPc = "trigger"
    /\ IF ChanFull(refreshCh)
       THEN UNCHANGED <<refreshCh, accepted>>
       ELSE /\ refreshCh' = refreshCh + 1
            /\ accepted' = accepted + 1
    /\ menuPc' = AfterItem("refresh")
    /\ UNCHANGED <<readyPc, loopPc, tickerC, stopCh, triggers, manualCycles,
                   failedInLoop>>
    /\ UNCHANGED <<notSchedVars, appVars>>
    /\ UNCHANGED <<lockVars, heapVars>>

\* menu.go:167-171, tray.go:50-55, app.go:62-65: Quit is clicked, the handler
\* closes stopCh and its goroutine returns
ClickQuit ==
    /\ menuPc = "listen"
    /\ stopCh' = CloseChan(stopCh)
    /\ menuPc' = AfterItem("quit")
    /\ UNCHANGED <<readyPc, loopPc, refreshCh, tickerC, triggers, accepted,
                   manualCycles, failedInLoop>>
    /\ UNCHANGED <<notSchedVars, appVars>>
    /\ UNCHANGED <<lockVars, heapVars>>

\* the credential files of this specification: those of Spec and no file
LoopCredFiles == AppCredFiles \cup {Missing}

InitLoop ==
    /\ Quiet
    /\ NoWeek
    /\ credFile \in LoopCredFiles
    /\ credMode = "0600"
    /\ weeklyStats = Nil
    /\ statsPc = "fetch"
    /\ percentage = None
    /\ fivePct = None

NextLoop ==
    \/ TrayRun
    \/ \E g \in Goroutines : RefreshLoad(g)
    \/ \E g \in Goroutines, ok \in BOOLEAN : RefreshWork(g, ok)
    \/ \E g \in Goroutines : RefreshLock(g)
    \/ \E g \in Goroutines : RefreshSwap(g)
    \/ \E g \in Goroutines : RefreshUnlock(g)
    \/ \E g \in Goroutines : RefreshFinish(g)
    \/ ReaderRLock
    \/ ReaderRead
    \/ ReaderRUnlock
    \/ ReaderUse
    \/ OnReadySpawn
    \/ Tick
    \/ LoopStop
    \/ LoopTick
    \/ LoopManual
    \/ ClickRefresh
    \/ TriggerRefresh
    \/ ClickQuit

SpecLoop == InitLoop /\ [][NextLoop]_vars

\* ------------------------------------------------------------------------
\* SpecLoopShared: the goroutines of the App over a login that another
\* process takes away while they run

\* what the other process leaves of the credentials file: nothing, bytes
\* that are no JSON, a document without access token
LogoutDocs ==
    { Missing, Invalid,
      Json("pretty", Obj([claudeAiOauth |-> OAuthObject("", "R0", ExpiresAt)])) }

InitLoopShared ==
    /\ Quiet
    /\ NoWeek
    /\ credFile = CycleCredFile
    /\ credMode = "0600"
    /\ weeklyStats = Nil
    /\ statsPc = "fetch"
    /\ percentage = None
    /\ fivePct = None

NextLoopShared ==
    \/ TrayRun
    \/ \E g \in Goroutines : RefreshLoad(g)
    \/ \E g \in Goroutines, ok \in BOOLEAN : RefreshWork(g, ok)
    \/ \E g \in Goroutines : RefreshLock(g)
    \/ \E g \in Goroutines : RefreshSwap(g)
    \/ \E g \in Goroutines : RefreshUnlock(g)
    \/ \E g \in Goroutines : RefreshFinish(g)
    \/ ReaderRLock
    \/ ReaderRead
    \/ ReaderRUnlock
    \/ ReaderUse
    \/ OnReadySpawn
    \/ Tick
    \/ LoopStop
    \/ LoopTick
    \/ LoopManual
    \/ ClickRefresh
    \/ TriggerRefresh
    \/ ClickQuit
    \/ \E doc \in LogoutDocs : ExternalWrite(doc)

SpecLoopShared == InitLoopShared /\ [][NextLoopShared]_vars

\* ------------------------------------------------------------------------
\* The week and the cache (weekly.go:46-115).  An instant in UTC is its day,
\* counted from 1 January of EpochYear, with the second of that day and the
\* nanosecond of that second.  1 January 2023 was a Sunday.

EpochYear == 2000 + 23

\* the years an instant of this specification lies in: now in the MaxYears
\* years after EpochYear, a week bound up to one year off
MaxYears == 2
NowYears == (EpochYear + 1)..(EpochYear + MaxYears)
CivilYears == EpochYear..(EpochYear + MaxYears + 1)

IsLeap(y) == (y % 4 = 0 /\ y % 100 # 0) \/ y % 400 = 0

DaysIn(y, m) ==
    CASE m = 2 -> IF IsLeap(y) THEN 29 ELSE 28
      [] m \in {4, 6, 9, 11} -> 30
      [] OTHER -> 31

RECURSIVE DaysBeforeYear(_)
DaysBeforeYear(y) ==
    IF y <= EpochYear THEN 0
    ELSE DaysBeforeYear(y - 1) + (IF IsLeap(y - 1) THEN 366 ELSE 365)

RECURSIVE DaysBeforeMonth(_, _)
DaysBeforeMonth(y, m) ==
    IF m <= 1 THEN 0 ELSE DaysBeforeMonth(y, m - 1) + DaysIn(y, m - 1)

\* time.Date(y, m, d, ...): the day of the instant.  d may lie outside the
\* month, the days are counted on from the first of the month.
Date(y, m, d) == DaysBeforeYear(y) + DaysBeforeMonth(y, m) + d - 1

\* Time.Year(), Time.Month(), Time.Day() of an instant of day n
Civil(n) ==
    LET y == CHOOSE yy \in CivilYears :
                 Date(yy, 1, 1) <= n /\ n < Date(yy + 1, 1, 1)
        m == CHOOSE mm \in 1..12 :
                 Date(y, mm, 1) <= n /\ n < Date(y, mm, 1) + DaysIn(y, mm)
    IN  [y |-> y, m |-> m, d |-> n - Date(y, m, 1) + 1]

\* Time.Weekday(): 0 is time.Sunday
Weekday(n) == n % 7

Instant(n, sec, nsec) == [day |-> n, sec |-> sec, nsec |-> nsec]

\* Time.Before, Time.After
Before(t, u) ==
    \/ t.day < u.day
    \/ t.day = u.day /\ t.sec < u.sec
    \/ t.day = u.day /\ t.sec = u.sec /\ t.nsec < u.nsec

After(t, u) == Before(u, t)

\* weekly.go:56: daysFromMonday := int(weekday) - 1
DaysFromMondayOffByOne(weekday) == weekday

DaysFromMonday(weekday) == weekday - 1

\* weekly.go:52-55: time.Sunday counts as the seventh day
IsoWeekdaySundayFirst(weekday) == weekday

IsoWeekday(weekday) == IF weekday = 0 THEN 7 ELSE weekday

\* weekly.go:48-72
GetWeekBounds(t) ==
    LET weekday == IsoWeekday(Weekday(t.day))
        daysFromMonday == DaysFromMonday(weekday)
        c == Civil(t.day)
        start == Instant(Date(c.y, c.m, c.d - daysFromMonday), 0, 0)
        s == Civil(start.day)
        e == Civil(Date(s.y, s.m, s.d + 6))
    IN  [ start |-> start,
          end   |-> Instant(Date(e.y, e.m, e.d), 23 * 3600 + 59 * 60 + 59,
                            999999999) ]

\* a date string of the cache: year-month-day as "2006-01-02" writes them, or
\* text of another form
DateString(y, m, d) == [form |-> "ymd", y |-> y, m |-> m, d |-> d]
OtherText == [form |-> "other"]

\* time.Parse("2006-01-02", s): midnight UTC of the day, or an error for
\* another form, a month out of range or a day the month does not have
ParseDate(str) ==
    IF str.form = "ymd" /\ str.m \in 1..12 /\ str.d \in 1..DaysIn(str.y, str.m)
    THEN [ok |-> TRUE, t |-> Instant(Date(str.y, str.m, str.d), 0, 0)]
    ELSE [ok |-> FALSE, t |-> Instant(0, 0, 0)]

\* weekly.go:104: the date falls within the week
InWindowAlways(date, weekStart, weekEnd) == TRUE

InWindow(date, weekStart, weekEnd) ==
    ~(Before(date, weekStart) \/ After(date, weekEnd))

\* weekly.go:109-112: what the inner loop adds to stats.TotalTokens for one
\* day, tokens after tokens
RECURSIVE TotalOf(_)
TotalOf(byModel) ==
    IF DOMAIN byModel = {} THEN 0
    ELSE LET model == CHOOSE k \in DOMAIN byModel : TRUE
         IN  byModel[model]
             + TotalOf([k \in DOMAIN byModel \ {model} |-> byModel[k]])

\* weekly.go:109-112: the tokens of one day added to stats.TokensByModel and
\* to stats.TotalTokens
AddDayOverwriting(acc, tokensByModel) ==
    [ TokensByModel |-> tokensByModel @@ acc.TokensByModel,
      TotalTokens   |-> acc.TotalTokens + TotalOf(tokensByModel) ]

AddDay(acc, tokensByModel) ==
    [ TokensByModel |->
        [ model \in DOMAIN acc.TokensByModel \cup DOMAIN tokensByModel |->
            (IF model \in DOMAIN acc.TokensByModel
             THEN acc.TokensByModel[model] ELSE 0)
            + (IF model \in DOMAIN tokensByModel
               THEN tokensByModel[model] ELSE 0) ],
      TotalTokens |-> acc.TotalTokens + TotalOf(tokensByModel) ]

\* weekly.go:97-113: the loop over cache.DailyModelTokens from entry i on
RECURSIVE SumDays(_, _, _, _, _)
SumDays(days, i, acc, weekStart, weekEnd) ==
    IF i > Len(days) THEN acc
    ELSE LET date == ParseDate(days[i].Date)
         IN  IF ~date.ok
             THEN SumDays(days, i + 1, acc, weekStart, weekEnd)
             ELSE IF ~InWindow(date.t, weekStart, weekEnd)
             THEN SumDays(days, i + 1, acc, weekStart, weekEnd)
             ELSE SumDays(days, i + 1, AddDay(acc, days[i].TokensByModel),
                          weekStart, weekEnd)

\* weekly.go:78-83: the map and the total a WeeklyStats starts with
NoTokens == [TokensByModel |-> <<>>, TotalTokens |-> 0]

\* weekly.go:75-115
CalculateWeeklyStats(c, creds, t) ==
    LET bounds == GetWeekBounds(t)
        sums == IF c.nil THEN NoTokens
                ELSE SumDays(c.DailyModelTokens, 1, NoTokens, bounds.start,
                             bounds.end)
    IN  [ WeekStart     |-> bounds.start,
          WeekEnd       |-> bounds.end,
          TokensByModel |-> sums.TokensByModel ]
        @@ NewWeeklyStats(sums.TotalTokens, creds.SubscriptionType,
                          creds.RateLimitTier)

\* app.go:116-144: the credentials, the cache and the weekly stats of a cycle
Calculate ==
    /\ statsPc = "fetch"
    /\ weeklyStats.nil
    /\ now # Nil
    /\ weeklyStats' = CalculateWeeklyStats(cache, ParseCredentials(credFile),
                                           now)
    /\ UNCHANGED <<statsPc, rateLimits, percentage, fivePct>>
    /\ UNCHANGED <<apiClient, token, refreshToken, pc, attempt, err, histVars,
                   fileVars, appVars, urtVars, schedVars, weekVars,
                   crossVars, lockVars, extVars, heapVars>>

\* ---- SpecWeek: CalculateWeeklyStats over the bounded clocks and caches

\* times of day: midnight, a moment after noon, the last nanosecond
TimesOfDay ==
    { <<0, 0>>, <<12 * 3600, 5>>, <<23 * 3600 + 59 * 60 + 59, 999999999>> }

\* every day of December to March of the years of now
Nows ==
    { Instant(Date(y, m, d), tod[1], tod[2]) :
        y \in NowYears, m \in {1, 2, 3, 12}, d \in 1..31, tod \in TimesOfDay }

\* the week of Monday 30 December 2024
WeekOfNewYear == Date(EpochYear + 1, 12, 30)

\* three instants of that week: the start of the Monday, a Wednesday and the
\* end of the Sunday
FewNows ==
    { Instant(WeekOfNewYear, 0, 0),
      Instant(WeekOfNewYear + 2, 12 * 3600, 5),
      Instant(WeekOfNewYear + 6, 23 * 3600 + 59 * 60 + 59, 999999999) }

\* dates of cache entries: the Sunday before that week, its Monday, its
\* Sunday, the Monday after, 30 February, and text that is no date
DateStrings ==
    { DateString(EpochYear + 1, 12, 29), DateString(EpochYear + 1, 12, 30),
      DateString(EpochYear + 2, 1, 5), DateString(EpochYear + 2, 1, 6),
      DateString(EpochYear + 2, 2, 30), OtherText }

DayTokens ==
    { [opus |-> 1000], [sonnet |-> 7], [opus |-> 20, sonnet |-> 300] }

DailyModelTokens == [Date : DateStrings, TokensByModel : DayTokens]

\* entries of a cache
MaxDays == 2

Caches ==
    { [nil |-> FALSE, DailyModelTokens |-> days] :
        days \in UNION { [1..n -> DailyModelTokens] : n \in 0..MaxDays } }

\* the credentials of this specification
WeekCredFile ==
    Json("pretty", Obj([claudeAiOauth |-> OAuthObject("A0", "R0", ExpiresAt)]))

\* every clock without a cache, and the two clocks with every cache
InitWeek ==
    /\ Quiet
    /\ credFile = WeekCredFile
    /\ credMode = "0600"
    /\ weeklyStats = Nil
    /\ statsPc = "fetch"
    /\ percentage = None
    /\ fivePct = None
    /\ \/ now \in Nows /\ cache = Nil
       \/ now \in FewNows /\ cache \in Caches

NextWeek ==
    \/ Calculate
    \/ \E usage \in FewUsageResponses : FetchApplied(usage)
    \/ FetchFailed
    \/ \E rnd \in RandValues : ShowPercentages(rnd)

SpecWeek == InitWeek /\ [][NextWeek]_vars

\* ------------------------------------------------------------------------
\* Properties of the token lifecycle, under Spec

\* the refresh token the credentials file holds
FileRefreshToken == ParseCredentials(credFile).RefreshToken

\* C1: a FetchRateLimits call never performs more than maxRetries (5)
\* refresh exchanges; and a call in which every usage request was answered
\* 401 and every refresh exchange returned 200 with an access token ends with
\* the max-retries error after exactly 5 refresh exchanges.
RetryCeiling ==
    /\ refreshes <= maxRetries
    /\ (pc = "done" /\ requests > 0 /\ refreshToken # "" /\ only401
           /\ allGranted)
          => (err = "MaxRetries" /\ refreshes = maxRetries)

RetryCeilingReached ==
    /\ pc = "done"
    /\ only401 /\ allGranted
    /\ err = "MaxRetries"
    /\ refreshes = maxRetries
    /\ requests = maxRetries + 1

\* C2: once a refresh exchange has been answered with a status other than
\* 200, the call has returned the refresh-failed error, and no usage request
\* and no refresh exchange follows in that call.
RefreshRejectionSurfaces ==
    /\ [](lastRefresh = "status"
            => (pc \in {"done", "idle"} /\ err = "RefreshFailed"))
    /\ [][lastRefresh = "status"
            => \/ (requests' = requests /\ refreshes' = refreshes)
               \/ (pc = "idle" /\ pc' = "usage")]_vars

RefreshRejected ==
    /\ pc = "done"
    /\ lastRefresh = "status"
    /\ err = "RefreshFailed"
    /\ refreshes = 2

\* C3: when a usage request is retried after a rotation event, the rotated
\* refresh token is in the credentials file and has been handed to the
\* rotation callback.
RotationPersistedBeforeRetry ==
    (pc = "usage" /\ rotated # None)
        => (FileRefreshToken = rotated /\ rotated \in callbackCalls)

\* C4: a successful refresh exchange leaves the client holding the access
\* token of the response and raises the attempt counter by exactly one, and
\* a usage request sent after it carries that token.
RefreshedTokenUsed ==
    /\ [][(refreshes' = refreshes + 1 /\ lastRefresh' = "ok")
            => (token' = granted' /\ attempt' = attempt + 1)]_vars
    /\ []((requests > 0 /\ refreshes > 0 /\ sentAt = refreshes)
            => sentToken = granted)

RetriedWithNewToken ==
    /\ refreshes = 2
    /\ sentAt = refreshes
    /\ attempt = 2
    /\ sentToken = "A2"
    /\ sentToken = granted
    /\ token = "A2"

\* ------------------------------------------------------------------------
\* Properties of the reconciliation, under SpecStats

\* the percentage the API's weekly utilization alone gives
ApiPercentage(w) == Clamp99(IntOfTimes100(w.WeeklyUtilization))

\* the percentage the cache total and the plan alone give
CachePercentage(w) ==
    IF w.TotalTokens = 0 THEN 0
    ELSE Clamp99(TokensTimes100Over(
             w.TotalTokens, GetWeeklyLimit(w.SubscriptionType, w.RateLimitTier)))

Shown == statsPc = "shown" /\ ~weeklyStats.nil

PercentagesInRange ==
    statsPc = "shown"
        => /\ percentage \in 0..99
           /\ fivePct \in 0..99
           /\ weeklyStats.nil => (percentage = 0 /\ fivePct = 0)
           /\ (~weeklyStats.nil /\ weeklyStats.HasAPIData
                 /\ weeklyStats.WeeklyUtilization = FP) => percentage = 99

FullWeekShownAs99 ==
    /\ Shown
    /\ weeklyStats.HasAPIData
    /\ weeklyStats.WeeklyUtilization = FP
    /\ weeklyStats.FiveHourUtilization > FP
    /\ percentage = 99
    /\ fivePct = 99

\* C7: the limiting window of a parsed response is "five_hour" exactly when
\* the five-hour utilization is strictly above the seven-day one, and
\* "seven_day" in every other case.
LimitingWindowIsStrictMaximum ==
    ~rateLimits.nil
        => /\ rateLimits.RepresentativeClaim \in {"five_hour", "seven_day"}
           /\ rateLimits.RepresentativeClaim = "five_hour"
                <=> rateLimits.FiveHourUtilization > rateLimits.WeeklyUtilization

TieGoesToSevenDay ==
    /\ ~rateLimits.nil
    /\ rateLimits.FiveHourUtilization = rateLimits.WeeklyUtilization
    /\ rateLimits.FiveHourUtilization > 0
    /\ rateLimits.RepresentativeClaim = "seven_day"

\* C8: the status of a parsed response is "throttled" exactly when the
\* five-hour or the seven-day utilization is at least 1.0, and "allowed"
\* otherwise, whatever the per-model windows hold.
ThrottledIffWindowFull ==
    ~rateLimits.nil
        => /\ rateLimits.Status \in {"allowed", "throttled"}
           /\ rateLimits.Status = "throttled"
                <=> \/ rateLimits.FiveHourUtilization >= FP
                    \/ rateLimits.WeeklyUtilization >= FP

ThrottledAtExactlyFull ==
    /\ ~rateLimits.nil
    /\ rateLimits.WeeklyUtilization = FP
    /\ rateLimits.FiveHourUtilization < FP
    /\ rateLimits.Status = "throttled"

\* ------------------------------------------------------------------------
\* Properties of UpdateRefreshToken, under SpecCred

Returned(e) == urtPc = "done" /\ urtErr = e

\* the claudeAiOauth object of a document
Section(file) == file.top.f["claudeAiOauth"].f

\* C9: after a successful call the document differs from the one read in
\* the refreshToken leaf of claudeAiOauth only: every other top-level key
\* and every other field of claudeAiOauth holds the value it held.
OnlyRefreshTokenChanges ==
    Returned("nil")
        => /\ credFile.kind = "json"
           /\ DOMAIN credFile.top.f = DOMAIN urtOld.top.f
           /\ \A k \in DOMAIN urtOld.top.f \ {"claudeAiOauth"} :
                 credFile.top.f[k] = urtOld.top.f[k]
           /\ DOMAIN Section(credFile)
                 = DOMAIN Section(urtOld) \cup {"refreshToken"}
           /\ \A k \in DOMAIN Section(urtOld) \ {"refreshToken"} :
                 Section(credFile)[k] = Section(urtOld)[k]
           /\ Section(credFile)["refreshToken"] = Str(urtToken)

\* whether UpdateRefreshToken finds a claudeAiOauth object in the document
HasOAuthObject(file) ==
    /\ file.kind = "json"
    /\ file.top.t = "obj"
    /\ "claudeAiOauth" \in DOMAIN file.top.f
    /\ file.top.f["claudeAiOauth"].t = "obj"

\* C10: a call on a missing file, on a file that is not JSON or on a
\* document without a claudeAiOauth object returns an error and leaves the
\* file as it was.
BadDocumentRejectedUntouched ==
    (urtPc = "done" /\ ~HasOAuthObject(urtOld))
        => /\ urtErr \in {"NotFound", "ParseError", "SchemaViolation"}
           /\ urtOld.kind = "missing" => urtErr = "NotFound"
           /\ urtOld.kind = "invalid" => urtErr = "ParseError"
           /\ (urtOld.kind = "json" /\ urtOld.top.t = "obj")
                 => urtErr = "SchemaViolation"
           /\ credFile = urtOld
           /\ tempFile = Missing

SchemaViolationReturned ==
    /\ Returned("SchemaViolation")
    /\ urtOld.kind = "json"
    /\ "claudeAiOauth" \in DOMAIN urtOld.top.f
    /\ "mcpOAuth" \in DOMAIN urtOld.top.f
    /\ credFile = urtOld

\* C11: the content of the credentials path changes only in the rename step
\* of UpdateRefreshToken, and then from the complete document the call read to
\* the complete updated document; in every other step, those of a call that
\* fails part-way included, the path keeps its content, so a reader of the
\* path never meets an empty or partly written file.
AtomicRewrite ==
    /\ [](credFile.kind \notin {"empty", "partial"})
    /\ [][credFile' # credFile =>
            /\ urtPc = "rename"
            /\ credFile = urtOld
            /\ credFile' = UpdatedData(urtOld, urtToken).data
            /\ urtErr' = "nil"]_vars
    /\ [](urtPc = "done" /\ urtErr # "nil" => credFile = urtOld)

\* a call went through the rename: the path holds the new document
RenamedToNewDocument ==
    /\ urtPc = "done"
    /\ urtErr = "nil"
    /\ credFile # urtOld
    /\ credFile = UpdatedData(urtOld, urtToken).data
    /\ tempFile = Missing

\* ------------------------------------------------------------------------
\* Properties of the scheduler, under SpecLoop

\* C12: at any moment at most one execution of refresh() is in progress,
\* whatever the interleaving of the initial refresh, the ticks and the manual
\* triggers.
OneRefreshAtATime == Cardinality(Refreshing) <= 1

\* a cycle of the loop is in its API call chain while a tick and a manual
\* request both wait
RefreshWhileBothPending ==
    /\ loopPc = "fetch"
    /\ tickerC = 1
    /\ refreshCh = 1
    /\ readyPc = "done"

\* C13: refreshCh never holds more than one request; triggerRefresh, once
\* called, can always take its step (it never blocks); a trigger that finds a
\* request pending changes nothing; and every request that went into the
\* channel is either still pending or has started exactly one cycle, so the
\* triggers issued while one request is pending cause one cycle together.
TriggersCoalesce ==
    /\ [](refreshCh <= 1)
    /\ [](menuPc = "trigger" => ENABLED TriggerRefresh)
    /\ [][menuPc = "trigger" /\ menuPc' = "listen" /\ refreshCh = 1 =>
            UNCHANGED <<refreshCh, accepted, manualCycles>>]_vars
    /\ [](accepted = manualCycles + refreshCh)
    /\ [](accepted <= triggers)

\* three triggers, the last two while the first was pending, and one cycle
\* run for them
ThreeTriggersOneCycle ==
    /\ triggers = 3
    /\ menuPc = "listen"
    /\ accepted = 1
    /\ manualCycles = 1
    /\ refreshCh = 0

\* C14: once stopCh is closed the loop starts no cycle.
NoCycleAfterStop ==
    [][stopCh = "closed" /\ loopPc = "select" => loopPc' # "refresh"]_vars

\* C15: a cycle of the loop that cannot use the credentials ends in the error
\* display with the loop back at its select, no API call made; from the
\* select a pending tick or manual request can start the next cycle; and the
\* loop stops only when stopCh is closed.
SchedulerSurvivesFailure ==
    /\ [][loopPc = "refresh" /\ loopPc' # "refresh" /\ CredentialsUnusable =>
            /\ tray' = "error"
            /\ loopPc' = "select"
            /\ UNCHANGED <<requests, refreshes, credFile>>]_vars
    /\ [](loopPc = "select" /\ tickerC > 0 => ENABLED LoopTick)
    /\ [](loopPc = "select" /\ refreshCh > 0 => ENABLED LoopManual)
    /\ [][loopPc' = "stopped" /\ loopPc # "stopped" => stopCh = "closed"]_vars
    /\ [](loopPc = "stopped" => stopCh = "closed")

\* a cycle of the loop failed on the credentials and the loop has started the
\* next one
CycleAfterFailedCycle ==
    /\ failedInLoop
    /\ loopPc = "refresh"
    /\ tray = "error"
    /\ stopCh = "open"

\* ------------------------------------------------------------------------
\* Properties of the week and the cache, under SpecWeek

Models == {"opus", "sonnet"}

\* the tokens an entry of the cache holds for a model
TokensOf(day, model) ==
    IF model \in DOMAIN day.TokensByModel THEN day.TokensByModel[model] ELSE 0

\* the entries whose date string is a date of the calendar within the seven
\* days from weekStart
CountedDays(days, weekStart) ==
    { i \in 1..Len(days) :
        LET str == days[i].Date
        IN  /\ str.form = "ymd"
            /\ str.m \in 1..12
            /\ str.d \in 1..DaysIn(str.y, str.m)
            /\ Date(str.y, str.m, str.d) \in weekStart.day..(weekStart.day + 6) }

RECURSIVE SumOfDays(_, _, _)
SumOfDays(days, indices, model) ==
    IF indices = {} THEN 0
    ELSE LET i == CHOOSE j \in indices : TRUE
         IN  TokensOf(days[i], model) + SumOfDays(days, indices \ {i}, model)

\* C16: the totals CalculateWeeklyStats returns are, model by model and in
\* all, the sums over the cache entries whose date parses and lies within
\* [weekStart, weekEnd]; the other entries add nothing, wherever they stand
\* in the cache.
WeeklyTotalsCountTheWeek ==
    (~weeklyStats.nil /\ now # Nil /\ ~cache.nil) =>
        LET days == cache.DailyModelTokens
            counted == CountedDays(days, weeklyStats.WeekStart)
            byModel == weeklyStats.TokensByModel
        IN  /\ DOMAIN byModel =
                  { m \in Models : \E i \in counted : m \in DOMAIN days[i].TokensByModel }
            /\ \A m \in DOMAIN byModel : byModel[m] = SumOfDays(days, counted, m)
            /\ weeklyStats.TotalTokens =
                  SumOfDays(days, counted, "opus")
                  + SumOfDays(days, counted, "sonnet")

\* an entry that does not parse stands before one of the week, and the
\* second is counted alone
CountedAfterUnparsable ==
    /\ ~weeklyStats.nil
    /\ now # Nil
    /\ ~cache.nil
    /\ Len(cache.DailyModelTokens) = 2
    /\ ~ParseDate(cache.DailyModelTokens[1].Date).ok
    /\ CountedDays(cache.DailyModelTokens, weeklyStats.WeekStart) = {2}
    /\ weeklyStats.TotalTokens = 320

\* C17: for every instant now, GetWeekBounds returns weekStart at 00:00:00 of
\* a Monday and weekEnd at 23:59:59.999999999 of the sixth day after it, a
\* Sunday; now lies between the two.
WeekIsMondayToSunday ==
    (~weeklyStats.nil /\ now # Nil) =>
        LET weekStart == weeklyStats.WeekStart
            weekEnd == weeklyStats.WeekEnd
        IN  /\ Weekday(weekStart.day) = 1
            /\ weekStart.sec = 0 /\ weekStart.nsec = 0
            /\ weekEnd.day = weekStart.day + 6
            /\ Weekday(weekEnd.day) = 0
            /\ weekEnd.sec = 23 * 3600 + 59 * 60 + 59
            /\ weekEnd.nsec = 999999999
            /\ ~Before(now, weekStart) /\ ~After(now, weekEnd)

\* now is a Sunday of January and the week began in the year before
SundayAcrossNewYear ==
    /\ ~weeklyStats.nil
    /\ now # Nil
    /\ Weekday(now.day) = 0
    /\ Civil(now.day).m = 1
    /\ Civil(weeklyStats.WeekStart.day).y = Civil(now.day).y - 1
    /\ Civil(weeklyStats.WeekStart.day).m = 12

\* ------------------------------------------------------------------------
\* Properties of the plan limit and of the two percentages, under SpecStats

Known(key) == key \in DOMAIN planLimits

CachePercentageIsQuotient ==
    (statsPc = "shown" /\ ~weeklyStats.nil /\ ~weeklyStats.HasAPIData) =>
        LET t == weeklyStats.TotalTokens
            limit == GetWeeklyLimit(weeklyStats.SubscriptionType,
                                    weeklyStats.RateLimitTier)
            unit == limit \div 100
        IN  /\ limit % 100 = 0
            /\ percentage \in 0..99
            /\ percentage < 99 =>
                  percentage * unit <= t /\ t < (percentage + 1) * unit
            /\ percentage = 99 => t >= 99 * unit
            /\ t = 1000 /\ limit = 45000000 => percentage = 0
            /\ t >= limit => percentage = 99

\* half of a "pro" week in the cache, shown as 50
HalfOfProWeekFromCache ==
    /\ statsPc = "shown"
    /\ ~weeklyStats.nil
    /\ ~weeklyStats.HasAPIData
    /\ weeklyStats.SubscriptionType = "pro"
    /\ weeklyStats.RateLimitTier = ""
    /\ weeklyStats.TotalTokens = 22500000
    /\ percentage = 50

\* u * 100 rounded to the nearest integer, u held as u * FP
RoundTimes100(x) == (x * 100 + FP \div 2) \div FP

\* C20: with a snapshot whose weekly utilization u is above 0, the percentage
\* shown is u * 100 rounded to the nearest integer, held to 0..99.
ApiPercentageIsRounded ==
    (statsPc = "shown" /\ ~weeklyStats.nil /\ weeklyStats.HasAPIData
        /\ weeklyStats.WeeklyUtilization > 0) =>
        percentage = Clamp99(RoundTimes100(weeklyStats.WeeklyUtilization))

\* the weekly utilizations a snapshot can hold in SpecStats
StoredUtilizations == { Div100(u) : u \in ApiUtilizations }

\* the WeeklyStats w with another weekly utilization
WithUtilization(w, u) == [w EXCEPT !.WeeklyUtilization = u]

CacheFields ==
    {"TokensByModel", "TotalTokens", "WeekStart", "WeekEnd",
     "SubscriptionType", "RateLimitTier"}

\* C22: once CalculateWeeklyStats has built the WeeklyStats of a cycle, the
\* per-model totals, the grand total, the week bounds and the plan stay as
\* the cache, the clock and the credentials gave them, through the
\* application of a snapshot as through a failed API call, up to the display.
CacheFieldsKept ==
    /\ [][(~weeklyStats.nil /\ ~weeklyStats'.nil) =>
            \A f \in CacheFields : weeklyStats'[f] = weeklyStats[f]]_vars
    /\ []((now # Nil /\ ~weeklyStats.nil /\ statsPc \in {"show", "shown"}) =>
            LET c == CalculateWeeklyStats(cache, ParseCredentials(credFile), now)
            IN  \A f \in CacheFields : weeklyStats[f] = c[f])

\* a snapshot was applied to a week of 320 cached tokens and both are shown
CacheTotalsBesideSnapshot ==
    /\ now # Nil
    /\ statsPc = "shown"
    /\ ~weeklyStats.nil
    /\ weeklyStats.HasAPIData
    /\ weeklyStats.WeeklyUtilization > 0
    /\ weeklyStats.TotalTokens = 320
    /\ weeklyStats.TokensByModel = [opus |-> 20, sonnet |-> 300]

\* the fields of WeeklyStats fetchAndApplyRateLimits assigns (app.go:193-203),
\* each with the field of RateLimitData it is assigned from
ApiFields ==
    [ FiveHourUtilization |-> "FiveHourUtilization",
      WeeklyUtilization   |-> "WeeklyUtilization",
      FiveHourReset       |-> "FiveHourReset",
      WeeklyReset         |-> "WeeklyReset",
      RateLimitStatus     |-> "Status",
      RepresentativeClaim |-> "RepresentativeClaim",
      OpusUtilization     |-> "OpusUtilization",
      SonnetUtilization   |-> "SonnetUtilization",
      OpusReset           |-> "OpusReset",
      SonnetReset         |-> "SonnetReset" ]

\* the zero value of an API field
ZeroOf(f) ==
    IF f \in {"FiveHourUtilization", "WeeklyUtilization", "OpusUtilization",
              "SonnetUtilization"} THEN 0
    ELSE IF f \in {"RateLimitStatus", "RepresentativeClaim"} THEN ""
    ELSE ZeroTime

\* C23: the WeeklyStats of a cycle never carries API data of an earlier
\* cycle: until the cycle's own API call has succeeded and been applied, and
\* for good when it failed, HasAPIData is false and every API field is at its
\* zero value; after a success every API field is the one of the cycle's own
\* snapshot.
SnapshotsNotMerged ==
    ~weeklyStats.nil =>
        IF pc = "idle" /\ err = "nil"
        THEN /\ weeklyStats.HasAPIData
             /\ \A f \in DOMAIN ApiFields :
                    weeklyStats[f] = rateLimits[ApiFields[f]]
        ELSE /\ ~weeklyStats.HasAPIData
             /\ \A f \in DOMAIN ApiFields : weeklyStats[f] = ZeroOf(f)

\* a cycle whose API call succeeded is followed by one whose usage request
\* fails in transport
FailedCycleAfterSuccessfulCycle ==
    /\ errBefore = "nil"
    /\ pc = "idle"
    /\ err = "NetworkError"
    /\ ~weeklyStats.nil
    /\ ~weeklyStats.HasAPIData
    /\ weeklyStats.FiveHourUtilization = 0

\* C24: the first usage request of the cycle after one that ended in
\* AuthExhausted or RefreshFailed carries the access token the client held
\* when that cycle ended.
FirstRequestUsesHeldToken ==
    (errBefore \in {"MaxRetries", "RefreshFailed"} /\ requests = 1) =>
        sentToken = heldBefore

\* C25: a transport failure of the usage request or of the refresh exchange
\* ends the call chain with an error, and no request of either kind follows
\* before the next cycle starts.
NetworkErrorEndsCycle ==
    /\ [](lastUsage = "neterr" =>
            pc \in {"done", "idle"} /\ err = "NetworkError")
    /\ [](lastRefresh = "neterr" =>
            pc \in {"done", "idle"} /\ err = "RefreshFailed")
    /\ [][((lastUsage = "neterr" \/ lastRefresh = "neterr") /\ pc # "idle") =>
            UNCHANGED <<requests, refreshes>>]_vars

\* the usage request of one cycle failed in transport, and so did the
\* refresh exchange of the next, after one usage request and one exchange
TransportFailedTwice ==
    /\ errBefore = "NetworkError"
    /\ lastRefresh = "neterr"
    /\ pc = "idle"
    /\ requests = 1
    /\ refreshes = 1

\* C30: the first refresh exchange of a cycle sends the refresh token of the
\* latest rotation of the earlier cycles.
LaterCyclesSendRotated ==
    (rotatedBefore # None /\ refreshes = 1) => sentRefresh = rotatedBefore

\* C28: whenever the credentials file has been replaced, by UpdateRefreshToken
\* or by the other process, it holds exactly the complete document of the one
\* that replaced it last.
LastWriterWins ==
    lastWriter # "none" =>
        /\ credFile = lastDoc
        /\ credFile.kind = "json"
        /\ lastWriter = "external" => credFile \in ExternalDocs
        /\ lastWriter = "update" =>
              ParseCredentials(credFile).RefreshToken \in NewRefreshTokens

\* the other process wrote its login after UpdateRefreshToken had read the
\* file and before it renamed: the file ends as UpdateRefreshToken's document,
\* the login it had read with the new refresh token
RenameAfterExternalWrite ==
    /\ extWrites = 1
    /\ lastWriter = "update"
    /\ urtPc = "done"
    /\ urtErr = "nil"
    /\ ParseCredentials(urtOld).AccessToken = "A0"
    /\ ParseCredentials(credFile).AccessToken = "A0"
    /\ ParseCredentials(credFile).RefreshToken = "R1"

\* C26: App.stats is written only by the goroutine holding statsMu
\* exclusively, which holds it for the assignment and nothing else of
\* refresh(); it is read only under the shared lock; and the exclusive lock
\* and the shared lock are never held together.
LockDiscipline ==
    /\ [](\A g \in Goroutines : PcOf(g) = "swap" => statsMu.writer = g)
    /\ [](\A g \in Goroutines :
            statsMu.writer = g => PcOf(g) \in {"swap", "unlock"})
    /\ [](statsMu.writer \in Goroutines \cup {"none"})
    /\ [](readerPc = "read" => statsMu.readers > 0)
    /\ [](statsMu.readers > 0 => statsMu.writer = "none")
    /\ [][stats' # stats =>
            \E g \in Goroutines : statsMu.writer = g /\ PcOf(g) = "swap"]_vars

\* a reader copies out the pointer an earlier cycle published while the loop
\* is at the API call chain of a later cycle
ReadDuringLaterFetch ==
    /\ readerPc = "read"
    /\ statsMu.readers = 1
    /\ stats # "nil"
    /\ loopPc = "fetch"

\* C27: when the select of refreshLoop starts a cycle with both a tick and a
\* manual request pending, the cycle uses up both.
TickAndRequestCoalesce ==
    [][(loopPc = "select" /\ loopPc' = "refresh" /\ tickerC = 1
          /\ refreshCh = 1) =>
         (tickerC' = 0 /\ refreshCh' = 0)]_vars

\* the steps of a cycle, in the order of refresh()
CycleOrder == <<"load", "parse", "aggregate", "fetch", "swap", "tray">>

\* C29: the steps of a refresh cycle are taken in the order credential load,
\* cache parse, aggregation, API call chain, pointer swap, tray update: the
\* pointer is written only once the API call chain is over, the tray shows
\* stats only once the pointer is written, and a cycle that shows stats has
\* taken all six.
StepsInOrder ==
    /\ [](/\ Len(steps) <= Len(CycleOrder)
          /\ steps = SubSeq(CycleOrder, 1, Len(steps)))
    /\ [][stats' # stats =>
            /\ steps = SubSeq(CycleOrder, 1, 4)
            /\ steps' = SubSeq(CycleOrder, 1, 5)]_vars
    /\ [][(tray # "stats" /\ tray' = "stats") =>
            steps = SubSeq(CycleOrder, 1, 5) /\ steps' = CycleOrder]_vars

\* a cycle started by a manual request has taken all its steps
ManualCycleComplete ==
    /\ manualCycles = 1
    /\ loopPc = "select"
    /\ steps = CycleOrder
    /\ stats # "nil"
    /\ tray = "stats"

\* C31: a 401 from the usage endpoint met by a client without a refresh
\* token ends FetchRateLimits at once: the error is the missing refresh token,
\* no refresh exchange is made, the usage request stays the only one, and
\* the access token is the one that was sent.
NoRefreshTokenFailsAtOnce ==
    /\ []((lastUsage = "unauthorized" /\ refreshToken = "") =>
            /\ pc \in {"done", "idle"}
            /\ err = "NoRefreshToken"
            /\ requests = 1
            /\ refreshes = 0
            /\ token = sentToken)
    /\ [][(pc = "usage" /\ refreshToken = "" /\ requests' = requests + 1
           /\ lastUsage' = "unauthorized") =>
            /\ pc' = "done"
            /\ token' = token
            /\ refreshes' = refreshes
            /\ sentRefresh' = sentRefresh]_vars

\* the login has no refresh token and its access token was refused
RefusedWithoutRefreshToken ==
    /\ ParseCredentials(credFile).RefreshToken = ""
    /\ refreshToken = ""
    /\ lastUsage = "unauthorized"
    /\ pc = "done"
    /\ err = "NoRefreshToken"
    /\ token = "A0"

\* C32: a refresh exchange that fails, in transport, by its status or by its
\* body, changes neither the access token nor the refresh token the client
\* holds.
FailedExchangeKeepsTokens ==
    [][(refreshes' = refreshes + 1 /\ lastRefresh' # "ok") =>
         /\ token' = token
         /\ refreshToken' = refreshToken
         /\ pc' = "done"
         /\ err' = "RefreshFailed"]_vars

\* the second exchange of a call fails after the first gave the client a new
\* access token and a new refresh token, which it still holds
FailedAfterRotation ==
    /\ refreshes = 2
    /\ lastRefresh \in {"neterr", "status", "badbody"}
    /\ pc = "done"
    /\ token = "A1"
    /\ refreshToken = "R1"
    /\ sentRefresh = "R1"

\* C33: a WeeklyStats that App.stats points to, or that a reader has copied
\* the pointer of, is not written: every write goes to an object that is
\* neither, a refresh() whose object is one of them is past its writes, and
\* what a reader holds has been filled in.
PublishedNeverWritten ==
    /\ [][\A o \in Objects :
            objects'[o] \notin {objects[o], "none"} => o \notin {stats, held}]_vars
    /\ [](\A g \in Goroutines :
            (local[g] # "nil" /\ local[g] \in {stats, held}) =>
                PcOf(g) \in {"unlock", "tray"})
    /\ [](stats # "nil" => objects[stats] \in {"cache", "api"})
    /\ [](held # "nil" => objects[held] \in {"cache", "api"})

\* a reader is looking at the WeeklyStats of an earlier cycle, snapshot
\* applied, after the loop has published the next one
ReaderHoldsEarlierStats ==
    /\ readerPc = "use"
    /\ held # "nil"
    /\ objects[held] = "api"
    /\ loopPc = "tray"
    /\ stats = local["loop"]
    /\ held # stats

\* C34: a refresh() that stops at the credential load shows the error and
\* does nothing else: no step of the cycle follows the load, and App.stats
\* and the object it points to stay as the last completed cycle left them.
FailedLoadKeepsStats ==
    /\ [][\A g \in Goroutines :
            (PcOf(g) = "refresh" /\ PcOf(g)' \notin RefreshSteps) =>
                /\ stats' = stats
                /\ objects' = objects
                /\ local' = local
                /\ steps' = <<"load">>
                /\ tray' = "error"]_vars
    /\ []((steps = <<"load">> /\ Refreshing = {}) =>
            /\ CredentialsUnusable
            /\ \A g \in Goroutines : local[g] = "nil")

\* the login was taken away after a cycle with an applied snapshot; the
\* cycle after it has stopped at the load, and a reader has just copied the
\* pointer to the WeeklyStats of the earlier cycle
StatsOutliveFailedLoad ==
    /\ extWrites = 1
    /\ steps = <<"load">>
    /\ Refreshing = {}
    /\ tray = "error"
    /\ readerPc = "runlock"
    /\ held # "nil"
    /\ held = stats
    /\ objects[held] = "api"

\* the sum of the values a map holds for keys
RECURSIVE SumOver(_, _)
SumOver(byModel, keys) ==
    IF keys = {} THEN 0
    ELSE LET k == CHOOSE m \in keys : TRUE
         IN  byModel[k] + SumOver(byModel, keys \ {k})

\* C35: in the WeeklyStats CalculateWeeklyStats returns, TotalTokens is the
\* sum of the values of TokensByModel; without a cache the map is empty and
\* the total 0.
TotalIsSumOfModels ==
    (~weeklyStats.nil /\ now # Nil) =>
        /\ weeklyStats.TotalTokens =
              SumOver(weeklyStats.TokensByModel, DOMAIN weeklyStats.TokensByModel)
        /\ cache.nil =>
              weeklyStats.TokensByModel = <<>> /\ weeklyStats.TotalTokens = 0

\* two days of the week, the one with opus alone and the other with opus and
\* sonnet, add up to 1320 tokens over two models
TwoDaysTwoModels ==
    /\ now # Nil
    /\ ~weeklyStats.nil
    /\ ~cache.nil
    /\ Len(cache.DailyModelTokens) = 2
    /\ weeklyStats.TokensByModel = [opus |-> 1020, sonnet |-> 300]
    /\ weeklyStats.TotalTokens = 1320

\* the date string "2006-01-02" writes for the day of an instant
TodayOf(t) ==
    LET c == Civil(t.day) IN DateString(c.y, c.m, c.d)

\* C36: now lies within the bounds of its week, and so does the midnight that
\* began its day: every cache entry dated today is counted, all its tokens
\* are in the totals.
TodayIsInTheWindow ==
    (~weeklyStats.nil /\ now # Nil) =>
        LET weekStart == weeklyStats.WeekStart
            weekEnd == weeklyStats.WeekEnd
            today == Instant(now.day, 0, 0)
            byModel == weeklyStats.TokensByModel
        IN  /\ ~Before(now, weekStart) /\ ~After(now, weekEnd)
            /\ ~Before(today, weekStart) /\ ~After(today, weekEnd)
            /\ ~cache.nil =>
                  \A i \in 1..Len(cache.DailyModelTokens) :
                      LET day == cache.DailyModelTokens[i]
                      IN  day.Date = TodayOf(now) =>
                            \A m \in DOMAIN day.TokensByModel :
                                /\ m \in DOMAIN byModel
                                /\ byModel[m] >= day.TokensByModel[m]

\* now is the first instant of a Monday and the one entry of the cache,
\* dated that Monday, is counted
MondayMidnightCounted ==
    /\ now # Nil
    /\ ~weeklyStats.nil
    /\ ~cache.nil
    /\ Weekday(now.day) = 1
    /\ now.sec = 0
    /\ now.nsec = 0
    /\ Len(cache.DailyModelTokens) = 1
    /\ cache.DailyModelTokens[1].Date = TodayOf(now)
    /\ weeklyStats.TotalTokens = 1000

\* C37: whenever UpdateRefreshToken is not between os.CreateTemp and its
\* return, the credentials directory holds no temp file of its: none is left
\* by a call that succeeded, nor by one that failed at the write, the close,
\* the chmod or the rename.
NoTempFileLeft ==
    /\ [](urtPc \in {"idle", "stat", "create", "done"} => tempFile = Missing)
    /\ [][(urtPc \in {"write", "close", "chmod", "rename"} /\ urtPc' = "done") =>
            tempFile # Missing /\ tempFile' = Missing]_vars

\* the temp file was written, closed and given its mode, the rename failed,
\* and the call has returned
RenameFailedTempGone ==
    /\ urtPc = "done"
    /\ urtFrom = "rename"
    /\ urtErr = "IOError"
    /\ tempMode = urtPerm
    /\ tempFile = Missing
    /\ credFile = urtOld

\* C38: stopCh is closed at most once: it goes from open to closed in the
\* step in which the handler of the menu returns, and never changes again,
\* whatever is clicked.
StopChClosedOnce ==
    /\ [](stopCh \in {"open", "closed"})
    /\ [](stopCh = "closed" <=> menuPc = "exited")
    /\ [][stopCh' # stopCh =>
            /\ stopCh = "open"
            /\ stopCh' = "closed"
            /\ menuPc = "listen"
            /\ menuPc' = "exited"]_vars

\* Quit was clicked after every click on Refresh the handler serves, and
\* the loop has stopped
QuitAfterAllClicks ==
    /\ triggers = MaxClicks
    /\ stopCh = "closed"
    /\ menuPc = "exited"
    /\ loopPc = "stopped"

\* plan names: those of planLimits, none, and two of no plan
PlanNames == DOMAIN planLimits \cup {"", "default_raven", "max"}

====
